---------------------------- MODULE Spec2Model ----------------------------
(***************************************************************************)
(* Africa Demographics Platform: cohort synthesizer, year resolver and     *)
(* report assembly (src/main.py, src/generator_utils.py).                  *)
(*                                                                         *)
(* Numbers.  The Python code computes in IEEE doubles.  The model uses     *)
(* fixed point: fertility in tenths, life expectancy in whole years,       *)
(* growth in tenths of a percent, survival in thousandths, band            *)
(* populations in hundredths of a person, growth factors in 1e-8 units     *)
(* and percentages in hundredths of a percent.  Every product is split     *)
(* into limbs so that no intermediate value leaves 32 bits.                *)
(***************************************************************************)
EXTENDS Integers, Sequences, FiniteSets, TLC

VARIABLES
    \* ---- cohort synthesizer (create_population_pyramid) ----
    tfr,            \* total_fertility_rate handed to generate_distribution
    life_exp,       \* life_expectancy handed to generate_distribution
    growth,         \* population_growth_rate handed to generate_distribution
    synth_pc,       \* "input" before the call, "done" after it
    survival,       \* list survival of generate_distribution, thousandths
    dist,           \* the 17 floored band populations of the last call
    pop_age,        \* list returned by generate_distribution
    male,           \* male bar values (negated shares)
    female          \* female bar values

VARIABLES
    \* ---- year resolver (get_best_available_data, create_africa_map) ----
    df,             \* the time series: rows of one indicator, in frame order
    target_year,    \* the year asked for
    max_years_back, \* the lookback k
    res_pc,         \* "input", then "resolved" or "mapped"
    result,         \* rows of the frame get_best_available_data returned
    map_warning,    \* create_africa_map issued st.warning
    map_return      \* what create_africa_map returned: "None" or a figure

VARIABLES
    \* ---- report assembly (ReportGenerator) ----
    language,       \* ml_config.get_language(): "fr" or "en"
    gemini_api_key, \* self.gemini_api_key, "" when GEMINI_API_KEY is unset
    module_name,    \* argument module_name
    data,           \* argument data: the metrics, entries in mapping order
    figures,        \* argument figures: "None" or a list of figures
    rep_pc,         \* "input", then "returned" or "raised"
    mode,           \* "simple" or "ai": which of the two methods ran
    doc,            \* the blocks appended to the document, in order
    error,          \* the exception that left the method, "" when none
    remote_calls,   \* calls of self.model.generate_content
    model_reads,    \* reads of the attribute self.model
    remote,         \* what generate_content did when it was called
    sent_prompt     \* the lines of metrics in the prompt that was sent

VARIABLES
    \* ---- report buttons (add_report_buttons) and main's sidebar reports ----
    ml_config_given, \* add_report_buttons: the argument ml_config is not None
    config_key,     \* config_loader.get('GEMINI_API_KEY'), "" when unset
    page,           \* the page main renders in this run
    clicked,        \* the report button pressed in this run: "none", "simple", "ai"
    gen_simple,     \* st.session_state.gen_simple
    gen_ai,         \* st.session_state.gen_ai
    downloads,      \* the st.download_button calls of the latest run
    messages,       \* the st.success / error / warning / info calls of the latest run
    ui_pc,          \* "idle", or "ready" for the next run of the script
    ui_runs         \* script runs so far

VARIABLES
    \* ---- create_population_pyramid ----
    pyr_country_data, \* country_data: the rows of the country, in frame order
    pyr_year,       \* the argument year
    animate,        \* the argument animate
    pyr_pc,         \* "idle", "input", then "done"
    gd_calls,       \* the calls of generate_distribution, in order
    fig_traces,     \* the bars added with fig.add_trace, in order
    fig_frames,     \* fig.frames
    fig_slider,     \* the labels of the slider steps
    pyr_return      \* "None" or "fig"

synth_vars == <<tfr, life_exp, growth, synth_pc, survival, dist, pop_age, male, female>>

resolver_vars == <<df, target_year, max_years_back, res_pc, result, map_warning, map_return>>

report_vars == <<language, gemini_api_key, module_name, data, figures, rep_pc, mode,
                 doc, error, remote_calls, model_reads, remote, sent_prompt>>

ui_vars == <<ml_config_given, config_key, page, clicked, gen_simple, gen_ai,
             downloads, messages, ui_pc, ui_runs>>

pyramid_vars == <<pyr_country_data, pyr_year, animate, pyr_pc, gd_calls, fig_traces, fig_frames,
                  fig_slider, pyr_return>>

vars == <<synth_vars, resolver_vars, report_vars, ui_vars, pyramid_vars>>

-----------------------------------------------------------------------------
(* Scalars that may be missing (NaN / None): pd.notna, pd.isna.            *)

Missing == [na |-> TRUE]

Num(v) == [na |-> FALSE, v |-> v]

notna(x) == ~x.na

isna(x) == x.na

\* builtin max / min on two numbers
Max2(a, b) == IF a >= b THEN a ELSE b

Min2(a, b) == IF a <= b THEN a ELSE b

\* np.clip(x, lo, hi)
clip(x, lo, hi) == Max2(lo, Min2(hi, x))

-----------------------------------------------------------------------------
(* Fixed-point helpers.                                                    *)

Limb == 100 * 100

One8 == Limb * Limb

\* round-half-even of (q + r/d) given quotient q and remainder r
RoundHalfEven(q, r, d) ==
    IF 2 * r > d THEN q + 1
    ELSE IF 2 * r < d THEN q
    ELSE IF q % 2 = 0 THEN q ELSE q + 1

\* a * b / 1e8 rounded to nearest, for 0 <= a, b < 2.4e8, limb by limb
MulE8(a, b) ==
    LET a1 == a \div Limb
        a0 == a % Limb
        b1 == b \div Limb
        b0 == b % Limb
        c == a1 * b0 + a0 * b1
        low == (c % Limb) * Limb + a0 * b0
    IN  RoundHalfEven(a1 * b1 + (c \div Limb) + (low \div One8), low % One8, One8)

\* a * n / d rounded to nearest, for n, d small enough that d * n stays in 32 bits
MulDiv(a, n, d) == (a \div d) * n + RoundHalfEven(((a % d) * n) \div d, ((a % d) * n) % d, d)

\* b ** n on 1e-8 fixed point, by squaring
RECURSIVE Pow8(_, _)
Pow8(b, n) ==
    IF n = 0 THEN One8
    ELSE IF n % 2 = 0
         THEN LET h == Pow8(b, n \div 2) IN MulE8(h, h)
         ELSE MulE8(b, Pow8(b, n - 1))

RECURSIVE SumSeq(_)
SumSeq(s) == IF s = <<>> THEN 0 ELSE Head(s) + SumSeq(Tail(s))

-----------------------------------------------------------------------------
(* create_population_pyramid.generate_distribution (src/main.py 196-224)   *)

TfrDefault == 40

TfrMin == 15

TfrMax == 80

LifeDefault == 60

LifeMin == 40

LifeMax == 85

GrowthDefault == 25

GrowthMin == -10

GrowthMax == 50

NumBands == 17

\* max(100, pop) in hundredths of a person
PopFloor == 100 * 100

\* faulty variant: the fertility default taken as 5.0
ClampTfr_Default5(x) == clip(IF notna(x) THEN x.v ELSE 50, TfrMin, TfrMax)

\* tfr = np.clip(tfr if pd.notna(tfr) else 4.0, 1.5, 8.0), tenths
ClampTfr(x) == clip(IF notna(x) THEN x.v ELSE TfrDefault, TfrMin, TfrMax)

\* life_exp = np.clip(life_exp if pd.notna(life_exp) else 60, 40, 85), years
ClampLife(x) == clip(IF notna(x) THEN x.v ELSE LifeDefault, LifeMin, LifeMax)

\* faulty variant: growth clamped from below only
ClampGrowth_NoUpper(x) == Max2(GrowthMin, IF notna(x) THEN x.v ELSE GrowthDefault)

\* growth = np.clip(growth if pd.notna(growth) else 2.5, -1, 5), tenths of a percent
ClampGrowth(x) == clip(IF notna(x) THEN x.v ELSE GrowthDefault, GrowthMin, GrowthMax)

\* faulty variant: the last bands ignore the life-expectancy deficit
SurvivalAt_NoDeficit(i, le) ==
    LET s == IF i < 3 THEN 950 + (le - 50)
             ELSE IF i < 13 THEN 980 - (i - 3) * 5
             ELSE Max2(300, 850 - (i - 13) * 100)
    IN  Max2(100, Min2(990, s))

\* survival[i] for band index i (0-based, as in the code), thousandths
SurvivalAt(i, le) ==
    LET s == IF i < 3 THEN 950 + (le - 50)
             ELSE IF i < 13 THEN 980 - (i - 3) * 5
             ELSE Max2(300, 850 - (i - 13) * 100 - (85 - le) * 10)
    IN  Max2(100, Min2(990, s))

\* the list survival, 1-based: survival[i + 1] is the code's survival[i]
Survival(le) == [j \in 1..NumBands |-> SurvivalAt(j - 1, le)]

\* base = 100000 * (tfr / 5.0) * 0.048, hundredths of a person
Base(t) == 9600 * t

\* 1 / (1 + growth/100) on 1e-8 fixed point
Recip8(g) ==
    LET d == 1000 + g
        e9 == 1000 * 1000 * 1000
    IN  MulDiv(e9, 100, d)

\* (1 + growth/100) ** (-(i * 5)) on 1e-8 fixed point
GrowthFactor(g, i) == Pow8(Recip8(g), i * 5)

\* faulty variant: the 0.6 attrition starts one band early
BandPop_AttritionFrom14(i, prev, t, le, g) ==
    IF i = 0 THEN MulDiv(Base(t), SurvivalAt(0, le), 1000)
    ELSE LET p == MulE8(MulDiv(prev, SurvivalAt(i, le), 1000), GrowthFactor(g, i))
         IN  IF i >= 14 THEN MulDiv(p, 6, 10) ELSE p

\* faulty variant: band 0 is the base itself
BandPop_NoSurvival0(i, prev, t, le, g) ==
    IF i = 0 THEN Base(t)
    ELSE LET p == MulE8(MulDiv(prev, SurvivalAt(i, le), 1000), GrowthFactor(g, i))
         IN  IF i >= 15 THEN MulDiv(p, 6, 10) ELSE p

\* the un-floored pop of band i given dist[i-1] (prev), hundredths of a person
BandPop(i, prev, t, le, g) ==
    IF i = 0 THEN MulDiv(Base(t), SurvivalAt(0, le), 1000)
    ELSE LET p == MulE8(MulDiv(prev, SurvivalAt(i, le), 1000), GrowthFactor(g, i))
         IN  IF i >= 15 THEN MulDiv(p, 6, 10) ELSE p

\* faulty variant: the bands are appended without the floor of 100
RECURSIVE Dist_NoFloor(_, _, _, _)
Dist_NoFloor(n, t, le, g) ==
    IF n = 0 THEN <<>>
    ELSE LET d == Dist_NoFloor(n - 1, t, le, g)
             prev == IF n = 1 THEN 0 ELSE d[n - 1]
         IN  Append(d, BandPop(n - 1, prev, t, le, g))

\* the list dist after band n - 1 is appended (dist.append(max(100, pop)))
RECURSIVE Dist(_, _, _, _)
Dist(n, t, le, g) ==
    IF n = 0 THEN <<>>
    ELSE LET d == Dist(n - 1, t, le, g)
             prev == IF n = 1 THEN 0 ELSE d[n - 1]
         IN  Append(d, Max2(PopFloor, BandPop(n - 1, prev, t, le, g)))

\* round(p / total * 100, 2), hundredths of a percent; p <= tot
RECURSIVE LongDiv(_, _, _, _)
LongDiv(q, r, tot, ms) ==
    IF ms = <<>> THEN RoundHalfEven(q, r, tot)
    ELSE LongDiv(q * Head(ms) + ((r * Head(ms)) \div tot),
                 (r * Head(ms)) % tot, tot, Tail(ms))

Percent2(p, tot) == LongDiv(p \div tot, p % tot, tot, <<5, 5, 5, 5, 2, 2, 2, 2>>)

\* [5.5]*3 + [4.0]*10 + [2.0]*4
Fallback == [j \in 1..NumBands |-> IF j <= 3 THEN 550 ELSE IF j <= 13 THEN 400 ELSE 200]

\* return [round(p / total * 100, 2) for p in dist] if total > 0 else fallback
Normalize(d) ==
    LET tot == SumSeq(d)
    IN  IF tot > 0 THEN [j \in 1..Len(d) |-> Percent2(d[j], tot)]
        ELSE Fallback

generate_distribution(t, le, g) ==
    Normalize(Dist(NumBands, ClampTfr(t), ClampLife(le), ClampGrowth(g)))

\* round(x * m / 1000, 2) on hundredths, ties to even (numpy float round)
RoundShare(x, m) == RoundHalfEven((x * m) \div 1000, (x * m) % 1000, 1000)

\* male = [round(-p * 0.515, 2) for p in pop_age]
MaleBars(pa) == [j \in 1..Len(pa) |-> -RoundShare(pa[j], 515)]

\* faulty variant: the female bars take the male factor
FemaleBars_MaleFactor(pa) == [j \in 1..Len(pa) |-> RoundShare(pa[j], 515)]

\* female = [round(p * 0.485, 2) for p in pop_age]
FemaleBars(pa) == [j \in 1..Len(pa) |-> RoundShare(pa[j], 485)]

-----------------------------------------------------------------------------
(* The synthesizer applied to one (fertility, life expectancy, growth)     *)
(* triple, as the trace loop of create_population_pyramid does for one     *)
(* year (src/main.py 233-241).                                             *)

\* fertility inputs, tenths: missing, below, inside and above [1.5, 8.0]
TfrInputs == {Missing} \cup {Num(v) : v \in {10, 15, 20, 25, 30, 35, 40, 45, 50, 55, 60, 65, 70, 75, 80, 95}}

\* life-expectancy inputs, years: missing, below, inside and above [40, 85]
LifeInputs == {Missing} \cup {Num(v) : v \in {30, 40, 45, 50, 55, 60, 65, 70, 75, 80, 85, 95}}

\* growth inputs, tenths of a percent: missing, below, inside and above [-1, 5]
GrowthInputs == {Missing} \cup {Num(v) : v \in {-25, -10, -5, 0, 5, 10, 15, 20, 25, 30, 35, 40, 45, 50, 65}}

SynthIdle ==
    /\ synth_pc = "idle"
    /\ tfr = Missing
    /\ life_exp = Missing
    /\ growth = Missing
    /\ survival = <<>>
    /\ dist = <<>>
    /\ pop_age = <<>>
    /\ male = <<>>
    /\ female = <<>>

SynthInit ==
    /\ synth_pc = "input"
    /\ tfr \in TfrInputs
    /\ life_exp \in LifeInputs
    /\ growth \in GrowthInputs
    /\ survival = <<>>
    /\ dist = <<>>
    /\ pop_age = <<>>
    /\ male = <<>>
    /\ female = <<>>

\* pop_age = generate_distribution(...); male = ...; female = ...
Synthesize ==
    /\ synth_pc = "input"
    /\ synth_pc' = "done"
    /\ survival' = Survival(ClampLife(life_exp))
    /\ dist' = Dist(NumBands, ClampTfr(tfr), ClampLife(life_exp), ClampGrowth(growth))
    /\ pop_age' = generate_distribution(tfr, life_exp, growth)
    /\ male' = MaleBars(pop_age')
    /\ female' = FemaleBars(pop_age')
    /\ UNCHANGED <<tfr, life_exp, growth>>
    /\ UNCHANGED <<resolver_vars, report_vars, ui_vars, pyramid_vars>>

-----------------------------------------------------------------------------
(* ReportGenerator (src/generator_utils.py 19-271).                        *)
(*                                                                         *)
(* A metrics value is a record tagged by its Python type: float (n in      *)
(* thousandths), int, bool, NaN, None, str or dict (d: its entries in      *)
(* order).  Rendered text is a record of the format string and the         *)
(* rendered arguments, so that "{:.2f}" and str() stay apart.  Accented    *)
(* letters and symbols of the source strings are written in ASCII.         *)

FloatV(n) == [k |-> "float", n |-> n]

IntV(n) == [k |-> "int", n |-> n]

BoolV(b) == [k |-> "bool", b |-> b]

NaNV == [k |-> "nan"]

NoneV == [k |-> "none"]

StrV(x) == [k |-> "str", s |-> x]

DictV(entries) == [k |-> "dict", d |-> entries]

Entry(key, val) == [key |-> key, val |-> val]

\* key in data
HasKey(m, key) == \E j \in 1..Len(m) : m[j].key = key

\* data[key]
Get(m, key) == m[CHOOSE j \in 1..Len(m) : m[j].key = key].val

\* pd.isna(value) on a scalar or a mapping
pd_isna(v) == v.k \in {"nan", "none"}

\* isinstance(value, (int, float)); bool is a subclass of int, NaN is a float
IsIntOrFloat(v) == v.k \in {"int", "float", "bool", "nan"}

\* isinstance(value, float)
IsFloat(v) == v.k \in {"float", "nan"}

\* the exception of f"{value:.Nf}", "" when the value can be formatted
FormatError(v) ==
    IF v.k \in {"none", "dict"} THEN "TypeError"
    ELSE IF v.k = "str" THEN "ValueError"
    ELSE ""

\* 10 ** digits
RECURSIVE Pow10(_)
Pow10(n) == IF n = 0 THEN 1 ELSE 10 * Pow10(n - 1)

\* f"{value:.Nf}" for N = digits <= 3: the value in units of 10 ** -digits
FormatFixed(v, digits) ==
    IF v.k = "nan" THEN [k |-> "text", s |-> "nan"]
    ELSE IF v.k = "float"
         THEN LET unit == Pow10(3 - digits)
              IN  [k |-> "fixed", digits |-> digits,
                   n |-> RoundHalfEven(v.n \div unit, v.n % unit, unit)]
    ELSE IF v.k = "int"
         THEN [k |-> "fixed", digits |-> digits, n |-> v.n * Pow10(digits)]
    ELSE [k |-> "fixed", digits |-> digits, n |-> IF v.b THEN Pow10(digits) ELSE 0]

\* str(value), f"{value}"
PyStr(v) ==
    IF v.k = "str" THEN [k |-> "text", s |-> v.s]
    ELSE IF v.k = "none" THEN [k |-> "text", s |-> "None"]
    ELSE IF v.k = "nan" THEN [k |-> "text", s |-> "nan"]
    ELSE IF v.k = "bool" THEN [k |-> "text", s |-> IF v.b THEN "True" ELSE "False"]
    ELSE IF v.k = "int" THEN [k |-> "int", n |-> v.n]
    ELSE IF v.k = "float" THEN [k |-> "repr", n |-> v.n]
    ELSE [k |-> "mapping", d |-> v.d]

\* a literal piece of text
Lit(x) == [k |-> "text", s |-> x]

Text(fmt, args) == [fmt |-> fmt, args |-> args]

Block(section, kind, text) == [section |-> section, kind |-> kind, text |-> text]

\* doc.add_paragraph()
Blank(section) == Block(section, "paragraph", Text("", <<>>))

\* what a section method leaves behind: the blocks it appended and the
\* exception it raised ("" when it returned)
Done(blocks) == [blocks |-> blocks, err |-> ""]

Raised(blocks, err) == [blocks |-> blocks, err |-> err]

\* datetime.now(), fixed for the run
Now == [d |-> 2, m |-> 11, y |-> 2026, H |-> 16, M |-> 30, S |-> 5]

\* datetime.now().strftime(fmt) for the formats the generator uses
strftime(fmt) ==
    IF fmt = "%d/%m/%Y" THEN [k |-> "date", parts |-> <<Now.d, Now.m, Now.y>>]
    ELSE IF fmt = "%m/%d/%Y" THEN [k |-> "date", parts |-> <<Now.m, Now.d, Now.y>>]
    ELSE IF fmt = "%Y%m%d_%H%M%S"
         THEN [k |-> "date", parts |-> <<Now.y, Now.m, Now.d, Now.H, Now.M, Now.S>>]
    ELSE [k |-> "date", parts |-> <<Now.d, Now.m, Now.y, Now.H, Now.M>>]

\* _add_header
add_header(lang, name) ==
    Done(<< Block("Header", "heading0", Text("Africa Demographics Platform", <<>>)),
            Block("Header", "heading1",
                  Text(IF lang = "fr" THEN "Rapport: {}" ELSE "Report: {}", <<Lit(name)>>)),
            Blank("Header") >>)

\* faulty variant: the two formats swapped
add_date_Swapped(lang) ==
    Done(<< Block("Date", "paragraph",
                  Text("Date: {}",
                       <<strftime(IF lang = "fr" THEN "%m/%d/%Y" ELSE "%d/%m/%Y")>>)),
            Blank("Date") >>)

\* the date paragraph of create_simple_report / create_ai_report
add_date(lang) ==
    Done(<< Block("Date", "paragraph",
                  Text("Date: {}",
                       <<strftime(IF lang = "fr" THEN "%d/%m/%Y" ELSE "%m/%d/%Y")>>)),
            Blank("Date") >>)

\* the exception of the population line (generator_utils.py 93-95)
PopulationLineError(m) ==
    IF HasKey(m, "total_population_millions")
    THEN FormatError(Get(m, "total_population_millions"))
    ELSE ""

\* the exception of a summary line guarded by `not pd.isna(...)`
GuardedLineError(m, key) ==
    IF HasKey(m, key) /\ ~pd_isna(Get(m, key)) THEN FormatError(Get(m, key)) ELSE ""

Bullet(fmt, arg) == Block("ExecutiveSummary", "bullet", Text(fmt, <<arg>>))

\* summary_lines
SummaryLines(m) ==
    (IF HasKey(m, "total_population_millions")
     THEN <<Bullet("Population totale: {:.1f} millions",
                   FormatFixed(Get(m, "total_population_millions"), 1))>>
     ELSE <<>>)
    \o (IF HasKey(m, "weighted_tfr") /\ ~pd_isna(Get(m, "weighted_tfr"))
        THEN <<Bullet("Taux de fecondite moyen: {:.2f}",
                      FormatFixed(Get(m, "weighted_tfr"), 2))>>
        ELSE <<>>)
    \o (IF HasKey(m, "weighted_median_age") /\ ~pd_isna(Get(m, "weighted_median_age"))
        THEN <<Bullet("Age median: {:.1f} ans",
                      FormatFixed(Get(m, "weighted_median_age"), 1))>>
        ELSE <<>>)
    \o (IF HasKey(m, "countries_analyzed")
        THEN <<Bullet("Pays analyses: {}", PyStr(Get(m, "countries_analyzed")))>>
        ELSE <<>>)

\* _add_executive_summary
add_executive_summary(lang, m) ==
    LET heading == Block("ExecutiveSummary", "heading2",
                         Text(IF lang = "fr" THEN "Resume Executif"
                              ELSE "Executive Summary", <<>>))
        e1 == PopulationLineError(m)
        e2 == GuardedLineError(m, "weighted_tfr")
        e3 == GuardedLineError(m, "weighted_median_age")
        err == IF e1 # "" THEN e1 ELSE IF e2 # "" THEN e2 ELSE e3
    IN  IF err # "" THEN Raised(<<heading>>, err)
        ELSE Done(<<heading>> \o SummaryLines(m) \o <<Blank("ExecutiveSummary")>>)

\* faulty variant: every number is formatted with :.2f
MainDataLine_AllTwoDecimals(e) ==
    IF IsIntOrFloat(e.val) /\ e.val.k # "bool"
    THEN IF ~pd_isna(e.val)
         THEN <<Block("MainData", "paragraph",
                      Text("{}: {}", <<Lit(e.key), FormatFixed(e.val, 2)>>))>>
         ELSE <<>>
    ELSE IF e.val.k = "str"
         THEN <<Block("MainData", "paragraph", Text("{}: {}", <<Lit(e.key), PyStr(e.val)>>))>>
         ELSE <<>>

\* the paragraph _add_main_data writes for one entry, if any
MainDataLine(e) ==
    IF IsIntOrFloat(e.val) /\ e.val.k # "bool"
    THEN IF ~pd_isna(e.val)
         THEN <<Block("MainData", "paragraph",
                      Text("{}: {}", <<Lit(e.key),
                           IF IsFloat(e.val) THEN FormatFixed(e.val, 2) ELSE PyStr(e.val)>>))>>
         ELSE <<>>
    ELSE IF e.val.k = "str"
         THEN <<Block("MainData", "paragraph", Text("{}: {}", <<Lit(e.key), PyStr(e.val)>>))>>
         ELSE <<>>

RECURSIVE MainDataLines(_)
MainDataLines(m) ==
    IF m = <<>> THEN <<>> ELSE MainDataLine(Head(m)) \o MainDataLines(Tail(m))

\* _add_main_data
add_main_data(lang, m) ==
    Done(<<Block("MainData", "heading2",
                 Text(IF lang = "fr" THEN "Donnees Principales" ELSE "Main Data", <<>>))>>
         \o MainDataLines(m) \o <<Blank("MainData")>>)

\* figures: the argument is None, or a list of figures
NoFigures == [given |-> FALSE, list |-> <<>>]

FigureList(l) == [given |-> TRUE, list |-> l]

\* a figure whose to_image and embedding succeed
OkFig == [k |-> "ok"]

\* a figure whose to_image raises
RenderFails == [k |-> "raises", reason |-> "kaleido is not installed"]

\* a figure whose bytes doc.add_picture rejects
EmbedFails == [k |-> "raises", reason |-> "cannot identify image"]

\* a None entry of the list
NoneFig == [k |-> "none"]

\* faulty variant: the placeholder shows enumerate's 0-based index
RECURSIVE FigureBlocks_ZeroBased(_, _)
FigureBlocks_ZeroBased(l, i) ==
    IF i > Len(l) THEN <<>>
    ELSE (IF l[i].k = "none" THEN <<>>
          ELSE IF l[i].k = "ok"
               THEN << Block("Figures", "picture", Text("", <<>>)),
                       Block("Figures", "caption",
                             Text("Figure {}", <<[k |-> "int", n |-> (i - 1) + 1]>>)) >>
               ELSE <<Block("Figures", "paragraph",
                            Text("[Erreur figure {}: {}]",
                                 <<[k |-> "int", n |-> i - 1], Lit(l[i].reason)>>))>>)
         \o FigureBlocks_ZeroBased(l, i + 1)

\* the blocks of the loop of _add_figures from list position i (1-based) on;
\* enumerate's index is i - 1 and the text shows index + 1
RECURSIVE FigureBlocks(_, _)
FigureBlocks(l, i) ==
    IF i > Len(l) THEN <<>>
    ELSE (IF l[i].k = "none" THEN <<>>
          ELSE IF l[i].k = "ok"
               THEN << Block("Figures", "picture", Text("", <<>>)),
                       Block("Figures", "caption",
                             Text("Figure {}", <<[k |-> "int", n |-> (i - 1) + 1]>>)) >>
               ELSE <<Block("Figures", "paragraph",
                            Text("[Erreur figure {}: {}]",
                                 <<[k |-> "int", n |-> (i - 1) + 1], Lit(l[i].reason)>>))>>)
         \o FigureBlocks(l, i + 1)

\* _add_figures
add_figures(lang, l) ==
    Done(<<Block("Figures", "heading2",
                 Text(IF lang = "fr" THEN "Graphiques" ELSE "Figures", <<>>))>>
         \o FigureBlocks(l, 1) \o <<Blank("Figures")>>)

\* `if figures: self._add_figures(doc, figures)`
maybe_add_figures(lang, f) ==
    IF f.given /\ f.list # <<>> THEN <<add_figures(lang, f.list)>> ELSE <<>>

\* the dict explanations of _add_brief_explanation
explanations ==
    [n \in {"Vue Continentale", "Continental Overview", "Profils Pays", "Country Profiles",
            "Analyse des Tendances", "Trend Analysis", "Analyse par Groupement",
            "Clustering Analysis", "Explorateur de Donnees", "Data Explorer"} |->
        CASE n = "Vue Continentale" -> "Ce rapport presente une vue d'ensemble des indicateurs demographiques pour l'ensemble du continent africain, calcules par moyennes ponderees par population."
          [] n = "Continental Overview" -> "This report presents an overview of demographic indicators for the entire African continent, calculated using population-weighted averages."
          [] n = "Profils Pays" -> "Ce rapport analyse en detail les indicateurs demographiques pour le pays selectionne, incluant la structure par age et les tendances temporelles."
          [] n = "Country Profiles" -> "This report analyzes in detail the demographic indicators for the selected country, including age structure and temporal trends."
          [] n = "Analyse des Tendances" -> "Ce rapport compare l'evolution temporelle des indicateurs demographiques entre plusieurs pays."
          [] n = "Trend Analysis" -> "This report compares the temporal evolution of demographic indicators across multiple countries."
          [] n = "Analyse par Groupement" -> "Ce rapport utilise des algorithmes de machine learning pour classifier les pays africains selon leurs profils demographiques similaires."
          [] n = "Clustering Analysis" -> "This report uses machine learning algorithms to classify African countries according to their similar demographic profiles."
          [] n = "Explorateur de Donnees" -> "Ce rapport presente les donnees filtrees selon vos criteres de selection."
          [] n = "Data Explorer" -> "This report presents the filtered data according to your selection criteria."]

\* _add_brief_explanation
add_brief_explanation(lang, name) ==
    Done(<< Block("Narrative", "heading2",
                  Text(IF lang = "fr" THEN "Explication" ELSE "Explanation", <<>>)),
            Block("Narrative", "paragraph",
                  Text(IF name \in DOMAIN explanations THEN explanations[name]
                       ELSE "Ce rapport presente une analyse demographique detaillee.", <<>>)),
            Blank("Narrative") >>)

\* faulty variant: nested numbers are written by str()
RECURSIVE SubLines_Unformatted(_)
SubLines_Unformatted(d) ==
    IF d = <<>> THEN <<>>
    ELSE LET e == Head(d)
         IN  (IF ~pd_isna(e.val)
              THEN <<Text("  - {}: {}", <<Lit(e.key), PyStr(e.val)>>)>>
              ELSE <<>>)
             \o SubLines_Unformatted(Tail(d))

\* the lines _format_data_for_prompt writes for the entries of a nested mapping
RECURSIVE SubLines(_)
SubLines(d) ==
    IF d = <<>> THEN <<>>
    ELSE LET e == Head(d)
         IN  (IF IsIntOrFloat(e.val) /\ ~pd_isna(e.val)
              THEN <<Text("  - {}: {:.2f}", <<Lit(e.key), FormatFixed(e.val, 2)>>)>>
              ELSE IF ~pd_isna(e.val)
                   THEN <<Text("  - {}: {}", <<Lit(e.key), PyStr(e.val)>>)>>
                   ELSE <<>>)
             \o SubLines(Tail(d))

\* _format_data_for_prompt: the list formatted
RECURSIVE format_data_for_prompt(_)
format_data_for_prompt(m) ==
    IF m = <<>> THEN <<>>
    ELSE LET e == Head(m)
         IN  (IF e.val.k = "dict"
              THEN <<Text("{}:", <<Lit(e.key)>>)>> \o SubLines(e.val.d)
              ELSE IF IsIntOrFloat(e.val) /\ ~pd_isna(e.val)
                   THEN <<Text("{}: {:.2f}", <<Lit(e.key), FormatFixed(e.val, 2)>>)>>
                   ELSE IF e.val.k = "str"
                        THEN <<Text("{}: {}", <<Lit(e.key), PyStr(e.val)>>)>>
                        ELSE <<>>)
             \o format_data_for_prompt(Tail(m))

\* _generate_ai_prompt
generate_ai_prompt(lang, name, m) ==
    [template |-> IF lang = "fr" THEN "Tu es un expert en demographie africaine. [...] Reponds en francais, de maniere claire et actionable."
                  ELSE "You are an expert in African demography. [...] Respond in English, clearly and actionably.",
     module |-> name,
     lines |-> format_data_for_prompt(m)]

\* no prompt was built
NoPrompt == [template |-> "", module |-> "", lines |-> <<>>]

\* what self.model.generate_content(prompt) / response.text can do
RemoteOk == [ok |-> TRUE, text |-> "1. Interpretation ... 3. Recommendations ..."]

RemoteError == [ok |-> FALSE, text |-> "503 The service is unavailable"]

RemoteOutcomes == {RemoteOk, RemoteError}

\* generate_content was not called
NoCall == [ok |-> TRUE, text |-> ""]

\* faulty variant: no try/except around generate_content
AiCallBlocks_NoExcept(lang, outcome) ==
    IF outcome.ok
    THEN Done(<<Block("Narrative", "paragraph", Text("{}", <<Lit(outcome.text)>>)),
                Blank("Narrative")>>)
    ELSE Raised(<<>>, "Exception")

\* the try/except of _add_ai_analysis and the paragraph after it
AiCallBlocks(lang, outcome) ==
    IF outcome.ok
    THEN Done(<<Block("Narrative", "paragraph", Text("{}", <<Lit(outcome.text)>>)),
                Blank("Narrative")>>)
    ELSE Done(<<Block("Narrative", "paragraph",
                      Text(IF lang = "fr" THEN "Erreur analyse IA: {}"
                           ELSE "Error during AI analysis: {}", <<Lit(outcome.text)>>)),
                Blank("Narrative")>>)

\* faulty variant: the missing key is only reported in the French interface
KeyMissing_FrenchOnly(lang, key) == key = "" /\ lang = "fr"

\* `if not self.gemini_api_key`
KeyMissing(lang, key) == key = ""

NotConfiguredNotice == "Cle API Gemini non configuree. Definissez GEMINI_API_KEY."

\* _add_ai_analysis: blocks and exception, with the calls of generate_content,
\* the reads of self.model and the prompt built
add_ai_analysis(lang, key, name, m, outcome) ==
    LET heading == Block("Narrative", "heading2",
                         Text(IF lang = "fr" THEN "Analyse IA et Recommandations"
                              ELSE "AI Analysis and Recommendations", <<>>))
    IN  IF KeyMissing(lang, key)
        THEN [blocks |-> <<heading, Block("Narrative", "paragraph",
                                          Text(NotConfiguredNotice, <<>>))>>,
              err |-> "", calls |-> 0, reads |-> 0, prompt |-> NoPrompt]
        ELSE LET call == AiCallBlocks(lang, outcome)
             IN  [blocks |-> <<heading>> \o call.blocks,
                  err |-> call.err, calls |-> 1,
                  \* __init__ sets self.model only when the key is set
                  reads |-> 1,
                  prompt |-> generate_ai_prompt(lang, name, m)]

\* _add_footer
add_footer ==
    Done(<< Blank("Footer"),
            Block("Footer", "paragraph", Text("--------", <<>>)),
            Block("Footer", "paragraph",
                  Text("Africa Demographics Platform (ADP) v2.5 [...] Genere le: {}",
                       <<strftime("%d/%m/%Y %H:%M")>>)) >>)

\* the section calls of one method run in order; the first exception ends it
RECURSIVE Assemble(_)
Assemble(rs) ==
    IF rs = <<>> THEN Done(<<>>)
    ELSE IF Head(rs).err # "" THEN Raised(Head(rs).blocks, Head(rs).err)
    ELSE LET rest == Assemble(Tail(rs))
         IN  [blocks |-> Head(rs).blocks \o rest.blocks, err |-> rest.err]

\* the calls both methods make before the narrative
CommonSections(lang, name, m, f) ==
    <<add_header(lang, name), add_date(lang), add_executive_summary(lang, m),
      add_main_data(lang, m)>> \o maybe_add_figures(lang, f)

\* faulty variant: the simple report leaves the main data out
create_simple_report_NoMainData(lang, name, m, f) ==
    Assemble(<<add_header(lang, name), add_date(lang), add_executive_summary(lang, m)>>
             \o maybe_add_figures(lang, f)
             \o <<add_brief_explanation(lang, name), add_footer>>)

\* create_simple_report up to doc.save
create_simple_report(lang, name, m, f) ==
    Assemble(CommonSections(lang, name, m, f)
             \o <<add_brief_explanation(lang, name), add_footer>>)

\* create_ai_report up to doc.save
create_ai_report(lang, key, name, m, f, outcome) ==
    LET before == Assemble(CommonSections(lang, name, m, f))
        ai == add_ai_analysis(lang, key, name, m, outcome)
    IN  IF before.err # ""
        THEN [blocks |-> before.blocks, err |-> before.err,
              calls |-> 0, reads |-> 0, prompt |-> NoPrompt]
        ELSE LET all == Assemble(<<before, [blocks |-> ai.blocks, err |-> ai.err], add_footer>>)
             IN  [blocks |-> all.blocks, err |-> all.err,
                  calls |-> ai.calls, reads |-> ai.reads, prompt |-> ai.prompt]

\* most figures a modelled list holds
MaxFigures == 2

Languages == {"fr", "en"}

\* os.getenv("GEMINI_API_KEY", "")
ApiKeys == {"", "AIza-key"}

\* a module the explanations know in each language, and one they do not
ModuleNames == {"Continental Overview", "Vue Continentale", "Custom Module"}

\* a nested mapping of counts with a missing entry, and one nested twice
DividendCounts ==
    DictV(<<Entry("High Opportunity", IntV(5)), Entry("Opening Window", NoneV),
            Entry("status", StrV("partial"))>>)

NestedTwice == DictV(<<Entry("by_region", DictV(<<Entry("north", FloatV(2876))>>))>>)

\* the keys of the modelled metrics in mapping order, each with the values it
\* takes when present
MetricChoices ==
    << [key |-> "total_population_millions",
        vals |-> {FloatV(1432567), NoneV, NaNV, StrV("n/a")}],
       [key |-> "weighted_tfr", vals |-> {FloatV(4321), NaNV, StrV("n/a")}],
       [key |-> "weighted_median_age", vals |-> {FloatV(19650), NoneV}],
       [key |-> "countries_analyzed", vals |-> {IntV(54), NoneV}],
       [key |-> "data_source", vals |-> {StrV("World Bank"), BoolV(TRUE)}],
       [key |-> "dividend_distribution", vals |-> {DividendCounts, NestedTwice}] >>

\* every mapping that holds a subset of the keys from position i on
RECURSIVE MetricsFrom(_)
MetricsFrom(i) ==
    IF i > Len(MetricChoices) THEN {<<>>}
    ELSE LET rest == MetricsFrom(i + 1)
         IN  rest \cup {<<Entry(MetricChoices[i].key, v)>> \o r :
                            v \in MetricChoices[i].vals, r \in rest}

MetricsInputs == MetricsFrom(1)

\* the metrics the continental overview hands over when nothing is missing
FullMetrics ==
    << Entry("total_population_millions", FloatV(1432567)),
       Entry("weighted_tfr", FloatV(4321)),
       Entry("weighted_median_age", FloatV(19650)),
       Entry("countries_analyzed", IntV(54)),
       Entry("dividend_distribution", DividendCounts) >>

RECURSIVE FigureLists(_)
FigureLists(n) ==
    IF n = 0 THEN {<<>>}
    ELSE LET shorter == FigureLists(n - 1)
         IN  shorter \cup
             {Append(l, f) : l \in {x \in shorter : Len(x) = n - 1},
                             f \in {OkFig, RenderFails, EmbedFails, NoneFig}}

FigureInputs == {NoFigures} \cup {FigureList(l) : l \in FigureLists(MaxFigures)}

\* _add_figures reads no metrics and the metrics sections read no figures:
\* every metrics mapping is paired with no figures and with one good figure,
\* and every figure list with the empty and the full metrics
ReportInputs ==
    (MetricsInputs \X {NoFigures, FigureList(<<OkFig>>)})
        \cup ({<<>>, FullMetrics} \X FigureInputs)

ReportIdle ==
    /\ rep_pc = "idle"
    /\ language = "fr"
    /\ gemini_api_key = ""
    /\ module_name = ""
    /\ data = <<>>
    /\ figures = NoFigures
    /\ mode = ""
    /\ doc = <<>>
    /\ error = ""
    /\ remote_calls = 0
    /\ model_reads = 0
    /\ remote = NoCall
    /\ sent_prompt = NoPrompt

ReportInit ==
    /\ rep_pc = "input"
    /\ language \in Languages
    /\ gemini_api_key \in ApiKeys
    /\ module_name \in ModuleNames
    /\ \E in \in ReportInputs : data = in[1] /\ figures = in[2]
    /\ mode = ""
    /\ doc = <<>>
    /\ error = ""
    /\ remote_calls = 0
    /\ model_reads = 0
    /\ remote = NoCall
    /\ sent_prompt = NoPrompt

\* generator.create_simple_report(module_name, data, figures)
CreateSimpleReport ==
    /\ rep_pc = "input"
    /\ LET r == create_simple_report(language, module_name, data, figures)
       IN  /\ doc' = r.blocks
           /\ error' = r.err
           /\ rep_pc' = IF r.err = "" THEN "returned" ELSE "raised"
    /\ mode' = "simple"
    /\ UNCHANGED <<language, gemini_api_key, module_name, data, figures,
                   remote_calls, model_reads, remote, sent_prompt>>
    /\ UNCHANGED <<synth_vars, resolver_vars, ui_vars, pyramid_vars>>

\* generator.create_ai_report(module_name, data, figures), the remote service
\* answering or failing
CreateAiReport ==
    /\ rep_pc = "input"
    /\ \E outcome \in RemoteOutcomes :
           LET r == create_ai_report(language, gemini_api_key, module_name, data,
                                     figures, outcome)
           IN  /\ doc' = r.blocks
               /\ error' = r.err
               /\ rep_pc' = IF r.err = "" THEN "returned" ELSE "raised"
               /\ remote_calls' = r.calls
               /\ model_reads' = r.reads
               /\ remote' = IF r.calls = 0 THEN NoCall ELSE outcome
               /\ sent_prompt' = r.prompt
    /\ mode' = "ai"
    /\ UNCHANGED <<language, gemini_api_key, module_name, data, figures>>
    /\ UNCHANGED <<synth_vars, resolver_vars, ui_vars, pyramid_vars>>

ReportNext == CreateSimpleReport \/ CreateAiReport

-----------------------------------------------------------------------------
(* get_best_available_data (src/main.py 165-180) and its caller            *)
(* create_africa_map (src/main.py 117-163).                                *)

\* most rows a modelled frame holds
MaxRows == 3

\* the years of the modelled frames
Years == 2020..2022

\* the years asked for: the last year of the frames and the one before
TargetYears == {2021, 2022}

\* country_iso2 -> country_name of the modelled frames
CountryName == [c \in {"MA", "DZ"} |-> IF c = "MA" THEN "Morocco" ELSE "Algeria"]

Countries == DOMAIN CountryName

\* indicator values in thousandths (2.876, 4.321), or missing
IndicatorValues == {Missing, Num(2876), Num(4321)}

Rows == [country_iso2 : Countries, year : Years, value : IndicatorValues]

\* frames of up to n rows in any order, one row per (country, year)
RECURSIVE Frames(_)
Frames(n) ==
    IF n = 0 THEN {<<>>}
    ELSE LET shorter == Frames(n - 1)
         IN  shorter \cup
             {Append(f, r) : f \in {g \in shorter : Len(g) = n - 1}, r \in Rows}

KeysDistinct(f) ==
    \A a, b \in 1..Len(f) :
        (f[a].country_iso2 = f[b].country_iso2 /\ f[a].year = f[b].year) => a = b

\* df[col].unique(): the values of a column in order of first appearance
RECURSIVE unique(_)
unique(col) ==
    IF col = <<>> THEN <<>>
    ELSE LET u == unique(SubSeq(col, 1, Len(col) - 1))
             x == col[Len(col)]
         IN  IF \E j \in 1..Len(u) : u[j] = x THEN u ELSE Append(u, x)

\* round(value, 2): thousandths to hundredths
Round2(v) == RoundHalfEven(v \div 10, v % 10, 10)

\* faulty variant: range(max_years_back) walks one offset less
LastOffset_Short(k) == k - 1

\* the last offset of range(max_years_back + 1)
LastOffset(k) == k

\* faulty variant: the inner loop goes on after a hit (no break)
RECURSIVE BestForCountry_NoBreak(_, _, _, _, _)
BestForCountry_NoBreak(country, country_data, target, offset, k) ==
    IF offset > LastOffset(k) THEN <<>>
    ELSE LET year == target - offset
             year_data == SelectSeq(country_data, LAMBDA r : r.year = year)
         IN  (IF year_data # <<>> /\ notna(year_data[1].value)
              THEN << [country_iso2 |-> country,
                       country_name |-> CountryName[year_data[1].country_iso2],
                       year |-> year,
                       value |-> Round2(year_data[1].value.v)] >>
              ELSE <<>>)
             \o BestForCountry_NoBreak(country, country_data, target, offset + 1, k)

\* the inner loop from `offset` on: the record appended for one country, if any
RECURSIVE BestForCountry(_, _, _, _, _)
BestForCountry(country, country_data, target, offset, k) ==
    IF offset > LastOffset(k) THEN <<>>
    ELSE LET year == target - offset
             year_data == SelectSeq(country_data, LAMBDA r : r.year = year)
         IN  IF year_data # <<>> /\ notna(year_data[1].value)
             THEN << [country_iso2 |-> country,
                      country_name |-> CountryName[year_data[1].country_iso2],
                      year |-> year,
                      value |-> Round2(year_data[1].value.v)] >>
             ELSE BestForCountry(country, country_data, target, offset + 1, k)

\* the outer loop over `countries`: the list result
RECURSIVE BestLoop(_, _, _, _)
BestLoop(countries, frame, target, k) ==
    IF countries = <<>> THEN <<>>
    ELSE LET country == Head(countries)
             country_data == SelectSeq(frame, LAMBDA r : r.country_iso2 = country)
         IN  BestForCountry(country, country_data, target, 0, k)
                 \o BestLoop(Tail(countries), frame, target, k)

get_best_available_data(frame, target, k) ==
    BestLoop(unique([j \in 1..Len(frame) |-> frame[j].country_iso2]), frame, target, k)

\* iso2_to_iso3, on the modelled countries
iso2_to_iso3 == [c \in Countries |-> IF c = "MA" THEN "MAR" ELSE "DZA"]

\* faulty variant: the emptiness test never fires
MapDataEmpty_Never(map_data) == FALSE

\* map_data.empty
MapDataEmpty(map_data) == map_data = <<>>

\* the locations of the choropleth: iso3 codes, MAR repeated as ESH
MapLocations(map_data) ==
    LET iso3 == [j \in 1..Len(map_data) |-> iso2_to_iso3[map_data[j].country_iso2]]
        morocco == SelectSeq(iso3, LAMBDA c : c = "MAR")
    IN  iso3 \o [j \in 1..Len(morocco) |-> "ESH"]

\* create_africa_map always looks back 3 years
MapYearsBack == 3

ResolverIdle ==
    /\ res_pc = "idle"
    /\ df = <<>>
    /\ target_year = 2022
    /\ max_years_back = 0
    /\ result = <<>>
    /\ map_warning = FALSE
    /\ map_return = "unset"

ResolverInit ==
    /\ res_pc = "input"
    /\ df \in {f \in Frames(MaxRows) : KeysDistinct(f)}
    /\ target_year \in TargetYears
    /\ max_years_back \in 0..3
    /\ result = <<>>
    /\ map_warning = FALSE
    /\ map_return = "unset"

\* result = get_best_available_data(df, indicator, target_year, max_years_back)
GetBestAvailableData ==
    /\ res_pc = "input"
    /\ res_pc' = "resolved"
    /\ result' = get_best_available_data(df, target_year, max_years_back)
    /\ UNCHANGED <<df, target_year, max_years_back, map_warning, map_return>>
    /\ UNCHANGED <<synth_vars, report_vars, ui_vars, pyramid_vars>>

\* create_africa_map(df, indicator, target_year, ml_config)
CreateAfricaMap ==
    /\ res_pc = "input"
    /\ res_pc' = "mapped"
    /\ result' = get_best_available_data(df, target_year, MapYearsBack)
    /\ IF MapDataEmpty(result')
       THEN /\ map_warning' = TRUE
            /\ map_return' = "None"
       ELSE /\ map_warning' = FALSE
            /\ map_return' = [locations |-> MapLocations(result')]
    /\ UNCHANGED <<df, target_year, max_years_back>>
    /\ UNCHANGED <<synth_vars, report_vars, ui_vars, pyramid_vars>>

ResolverNext == GetBestAvailableData \/ CreateAfricaMap

-----------------------------------------------------------------------------
(* create_population_pyramid (src/main.py 182-266): the trace loop and the *)
(* frames loop.                                                            *)

\* most rows the country has
MaxCountryRows == 3

PyramidYears == {2021, 2022, 2023}

\* a row of the country: its year and the three indicators
PyramidRows ==
    [year : PyramidYears, total_fertility_rate : {Missing, Num(45)},
     life_expectancy : {Num(60)}, population_growth_rate : {Num(25)}]

RECURSIVE RowLists(_)
RowLists(n) ==
    IF n = 0 THEN {<<>>}
    ELSE LET shorter == RowLists(n - 1)
         IN  shorter \cup {Append(l, r) : l \in {x \in shorter : Len(x) = n - 1},
                                          r \in PyramidRows}

\* sorted(values) of a set of years
RECURSIVE sorted(_)
sorted(S) ==
    IF S = {} THEN <<>>
    ELSE LET least == CHOOSE x \in S : \A y \in S : x <= y
         IN  <<least>> \o sorted(S \ {least})

\* faulty variant: the years in frame order, duplicates dropped, not sorted
RECURSIVE FirstSeen(_, _)
FirstSeen(rows, seen) ==
    IF rows = <<>> THEN <<>>
    ELSE IF Head(rows).year \in seen THEN FirstSeen(Tail(rows), seen)
    ELSE <<Head(rows).year>> \o FirstSeen(Tail(rows), seen \cup {Head(rows).year})

animation_years_Unsorted(rows, yr, anim) ==
    IF anim THEN FirstSeen(rows, {}) ELSE <<yr>>

\* sorted(country_data['year'].unique()) if animate else [year]
animation_years(rows, yr, anim) ==
    IF anim THEN sorted({rows[j].year : j \in 1..Len(rows)}) ELSE <<yr>>

\* country_data if animate else country_data[country_data['year'] == year]
pyramid_data(rows, yr, anim) ==
    IF anim THEN rows ELSE SelectSeq(rows, LAMBDA r : r.year = yr)

\* pyramid_data[pyramid_data['year'] == yr]
rows_of_year(rows, yr) == SelectSeq(rows, LAMBDA r : r.year = yr)

\* generate_distribution on the first row of the year
RowDistribution(row) ==
    generate_distribution(row.total_fertility_rate, row.life_expectancy,
                          row.population_growth_rate)

\* one of the two loops over animation_years: the years it does not skip
RECURSIVE LoopYears(_, _, _)
LoopYears(rows, years, i) ==
    IF i > Len(years) THEN <<>>
    ELSE (IF rows_of_year(rows, years[i]) = <<>> THEN <<>> ELSE <<years[i]>>)
         \o LoopYears(rows, years, i + 1)

\* the calls of generate_distribution one loop makes
LoopCalls(loop, ys) == [j \in 1..Len(ys) |-> [loop |-> loop, year |-> ys[j]]]

\* the two bars the trace loop adds for a year
TraceBars(rows, ys, first) ==
    [j \in 1..(2 * Len(ys)) |->
        LET yr == ys[(j + 1) \div 2]
            pop == RowDistribution(rows_of_year(rows, yr)[1])
        IN  [name |-> IF j % 2 = 1 THEN "Male" ELSE "Female",
             x |-> IF j % 2 = 1 THEN MaleBars(pop) ELSE FemaleBars(pop),
             visible |-> (yr = first)]]

\* the frames of the frames loop
FrameList(rows, ys) ==
    [j \in 1..Len(ys) |->
        LET pop == RowDistribution(rows_of_year(rows, ys[j])[1])
        IN  [name |-> ys[j], male |-> MaleBars(pop), female |-> FemaleBars(pop)]]

\* create_population_pyramid: what it leaves behind
create_population_pyramid(rows, yr, anim) ==
    LET none == [ret |-> "None", calls |-> <<>>, traces |-> <<>>, frames |-> <<>>,
                 slider |-> <<>>]
        pdata == pyramid_data(rows, yr, anim)
        years == animation_years(rows, yr, anim)
        ys == LoopYears(pdata, years, 1)
    IN  IF rows = <<>> \/ pdata = <<>> THEN none
        ELSE IF anim /\ Len(years) > 1
             THEN [ret |-> "fig",
                   calls |-> LoopCalls("trace", ys) \o LoopCalls("frame", ys),
                   traces |-> TraceBars(pdata, ys, years[1]),
                   frames |-> FrameList(pdata, ys),
                   slider |-> years]
             ELSE [ret |-> "fig", calls |-> LoopCalls("trace", ys),
                   traces |-> TraceBars(pdata, ys, years[1]),
                   frames |-> <<>>, slider |-> <<>>]

PyramidIdle ==
    /\ pyr_pc = "idle"
    /\ pyr_country_data = <<>>
    /\ pyr_year = 0
    /\ animate = FALSE
    /\ gd_calls = <<>>
    /\ fig_traces = <<>>
    /\ fig_frames = <<>>
    /\ fig_slider = <<>>
    /\ pyr_return = ""

PyramidInit ==
    /\ pyr_pc = "input"
    /\ pyr_country_data \in RowLists(MaxCountryRows)
    /\ pyr_year \in {2022, 2023}
    /\ animate \in BOOLEAN
    /\ gd_calls = <<>>
    /\ fig_traces = <<>>
    /\ fig_frames = <<>>
    /\ fig_slider = <<>>
    /\ pyr_return = ""

\* create_population_pyramid(df, country, year, animate)
CreatePopulationPyramid ==
    /\ pyr_pc = "input"
    /\ pyr_pc' = "done"
    /\ \E out \in {create_population_pyramid(pyr_country_data, pyr_year, animate)} :
           /\ gd_calls' = out.calls
           /\ fig_traces' = out.traces
           /\ fig_frames' = out.frames
           /\ fig_slider' = out.slider
           /\ pyr_return' = out.ret
    /\ UNCHANGED <<pyr_country_data, pyr_year, animate>>
    /\ UNCHANGED <<synth_vars, resolver_vars, report_vars, ui_vars>>

PyramidNext == CreatePopulationPyramid

-----------------------------------------------------------------------------
(* add_report_buttons (src/generator_utils.py 274-340) and the sidebar     *)
(* reports of main (src/main.py 349-355, 379-422). One action is one run   *)
(* of the script.                                                          *)

\* most script runs a behaviour holds
MaxRuns == 2

\* a module name as the pieces str.replace(' ', '_') looks at: words and spaces
Tokens(name) ==
    CASE name = "Continental Overview" -> <<"Continental", " ", "Overview">>
      [] name = "Vue Continentale" -> <<"Vue", " ", "Continentale">>
      [] name = "Analyse des Tendances" -> <<"Analyse", " ", "des", " ", "Tendances">>
      [] name = "Clustering" -> <<"Clustering">>

\* str.replace(old, new) on the pieces
RECURSIVE replace(_, _, _)
replace(ts, old, new) ==
    IF ts = <<>> THEN <<>>
    ELSE <<Lit(IF Head(ts) = old THEN new ELSE Head(ts))>> \o replace(Tail(ts), old, new)

\* f"rapport_simple_{module_name.replace(' ', '_')}_{now:%Y%m%d_%H%M%S}.docx"
ButtonsFilename(kind, name) ==
    <<Lit(kind), Lit("_")>> \o replace(Tokens(name), " ", "_")
        \o <<Lit("_"), strftime("%Y%m%d_%H%M%S"), Lit(".docx")>>

\* f"rapport_{now:%Y%m%d_%H%M%S}.docx" of the sidebar reports
SidebarFilename(kind) == <<Lit(kind), Lit("_"), strftime("%Y%m%d_%H%M%S"), Lit(".docx")>>

Message(kind, text) == [kind |-> kind, text |-> text]

Download(label, blocks, file_name) == [label |-> label, data |-> blocks, file_name |-> file_name]

\* no report method ran
NoReport ==
    [ran |-> FALSE, mode |-> "", blocks |-> <<>>, err |-> "", calls |-> 0, reads |-> 0,
     prompt |-> NoPrompt, remote |-> NoCall]

SimpleRun(lang, name, m, f) ==
    LET r == create_simple_report(lang, name, m, f)
    IN  [ran |-> TRUE, mode |-> "simple", blocks |-> r.blocks, err |-> r.err,
         calls |-> 0, reads |-> 0, prompt |-> NoPrompt, remote |-> NoCall]

AiRun(lang, key, name, m, f, outcome) ==
    LET r == create_ai_report(lang, key, name, m, f, outcome)
    IN  [ran |-> TRUE, mode |-> "ai", blocks |-> r.blocks, err |-> r.err,
         calls |-> r.calls, reads |-> r.reads, prompt |-> r.prompt,
         remote |-> IF r.calls = 0 THEN NoCall ELSE outcome]

\* the exception of ReportGenerator(...) called with nargs arguments:
\* __init__ takes ml_config only
ReportGenerator_init(nargs) == IF nargs = 1 THEN "" ELSE "TypeError"

\* what one run of add_report_buttons shows, click being the button pressed
add_report_buttons(given, lang, key, name, m, f, click, outcome) ==
    IF ~given \/ m = <<>>
    THEN [downloads |-> <<>>, messages |-> <<>>, report |-> NoReport]
    ELSE LET info == Message("info",
                             Text(IF lang = "fr"
                                  THEN "Configurez GEMINI_API_KEY pour activer le rapport IA."
                                  ELSE "Configure GEMINI_API_KEY to enable AI report.", <<>>))
             shown(r, kind, label, done) ==
                 IF r.err = ""
                 THEN [downloads |-> <<Download(label, r.blocks, ButtonsFilename(kind, name))>>,
                       messages |-> <<Message("success", Text(done, <<>>)), info>>,
                       report |-> r]
                 ELSE [downloads |-> <<>>,
                       messages |-> <<Message("error", Text("Erreur: {}", <<Lit(r.err)>>)), info>>,
                       report |-> r]
         IN  IF click = "simple"
             THEN shown(SimpleRun(lang, name, m, f), "rapport_simple",
                        IF lang = "fr" THEN "Telecharger Rapport" ELSE "Download Report",
                        IF lang = "fr" THEN "Rapport genere!" ELSE "Report generated!")
             ELSE IF click = "ai"
             THEN IF key = ""
                  THEN [downloads |-> <<>>,
                        messages |-> <<Message("warning",
                                               Text("Configurez GEMINI_API_KEY pour utiliser cette fonctionnalite.", <<>>))>>,
                        report |-> NoReport]
                  ELSE shown(AiRun(lang, key, name, m, f, outcome), "rapport_ia",
                             IF lang = "fr" THEN "Telecharger Rapport IA" ELSE "Download AI Report",
                             IF lang = "fr" THEN "Rapport IA genere!" ELSE "AI report generated!")
             ELSE [downloads |-> <<>>, messages |-> <<info>>, report |-> NoReport]

\* ml_config.t("continental_overview")
t_continental_overview(lang) ==
    IF lang = "fr" THEN "Vue Continentale" ELSE "Continental Overview"

\* main, continental overview page, from `if report_data:` to the except
\* clause: gs and ga are the session flags after the sidebar buttons
main_reports(lang, key, cfgkey, m, gs, ga, outcome) ==
    LET name == t_continental_overview(lang)
        failed(e, ds, r) ==
            [downloads |-> ds, messages |-> <<Message("error", Text("Error: {}", <<Lit(e)>>))>>,
             report |-> r, raised |-> TRUE]
        \* lines 404-409
        simple ==
            IF ~gs THEN [downloads |-> <<>>, messages |-> <<>>, report |-> NoReport,
                         raised |-> FALSE, gen_simple |-> gs]
            ELSE IF ReportGenerator_init(2) # ""
                 THEN failed(ReportGenerator_init(2), <<>>, NoReport) @@ [gen_simple |-> gs]
                 ELSE LET r == SimpleRun(lang, name, m, NoFigures)
                      IN  IF r.err # "" THEN failed(r.err, <<>>, r) @@ [gen_simple |-> gs]
                          ELSE [downloads |-> <<Download("Telecharger", r.blocks,
                                                         SidebarFilename("rapport"))>>,
                                messages |-> <<>>, report |-> r, raised |-> FALSE,
                                gen_simple |-> FALSE]
        \* lines 411-419
        ai ==
            IF simple.raised \/ ~ga
            THEN simple @@ [gen_ai |-> ga]
            ELSE IF cfgkey = ""
                 THEN [simple EXCEPT !.messages =
                           @ \o <<Message("warning",
                                          Text("Configurez GEMINI_API_KEY dans Parametres", <<>>))>>]
                      @@ [gen_ai |-> FALSE]
                 ELSE IF ReportGenerator_init(2) # ""
                      THEN failed(ReportGenerator_init(2), simple.downloads, simple.report)
                           @@ [gen_simple |-> simple.gen_simple, gen_ai |-> ga]
                      ELSE LET r == AiRun(lang, key, name, m, NoFigures, outcome)
                           IN  IF r.err # ""
                               THEN failed(r.err, simple.downloads, r)
                                    @@ [gen_simple |-> simple.gen_simple, gen_ai |-> ga]
                               ELSE [downloads |-> simple.downloads
                                                   \o <<Download("Telecharger IA", r.blocks,
                                                                 SidebarFilename("rapport_ia"))>>,
                                     messages |-> simple.messages, report |-> r,
                                     raised |-> FALSE, gen_simple |-> simple.gen_simple,
                                     gen_ai |-> FALSE]
    IN  IF m = <<>>
        THEN [downloads |-> <<>>, messages |-> <<>>, report |-> NoReport, raised |-> FALSE,
              gen_simple |-> gs, gen_ai |-> ga]
        ELSE ai

\* main from the sidebar buttons on: only the continental overview page
\* looks at the flags
main(pg, lang, key, cfgkey, m, gs, ga, outcome) ==
    IF pg = "continental_overview"
    THEN main_reports(lang, key, cfgkey, m, gs, ga, outcome)
    ELSE [downloads |-> <<>>, messages |-> <<>>, report |-> NoReport,
          raised |-> FALSE, gen_simple |-> gs, gen_ai |-> ga]

Pages == {"continental_overview", "country_profiles"}

Clicks == {"none", "simple", "ai"}

UiModuleNames == {"Continental Overview", "Analyse des Tendances", "Clustering"}

\* no metrics, the full metrics, and metrics the summary cannot format
UiMetrics == {<<>>, FullMetrics, <<Entry("total_population_millions", NoneV)>>}

UiFigures == {NoFigures, FigureList(<<OkFig, RenderFails>>)}

UiIdle ==
    /\ ui_pc = "idle"
    /\ ml_config_given = FALSE
    /\ config_key = ""
    /\ page = ""
    /\ clicked = "none"
    /\ gen_simple = FALSE
    /\ gen_ai = FALSE
    /\ downloads = <<>>
    /\ messages = <<>>
    /\ ui_runs = 0

UiInit ==
    /\ ui_pc = "ready"
    /\ ml_config_given \in BOOLEAN
    /\ config_key \in ApiKeys
    /\ language \in Languages
    /\ gemini_api_key \in ApiKeys
    /\ module_name \in UiModuleNames
    /\ data \in UiMetrics
    /\ figures \in UiFigures
    /\ page = ""
    /\ clicked = "none"
    /\ gen_simple = FALSE
    /\ gen_ai = FALSE
    /\ downloads = <<>>
    /\ messages = <<>>
    /\ ui_runs = 0
    /\ rep_pc = "input"
    /\ mode = ""
    /\ doc = <<>>
    /\ error = ""
    /\ remote_calls = 0
    /\ model_reads = 0
    /\ remote = NoCall
    /\ sent_prompt = NoPrompt

\* one run of a page script that calls
\* add_report_buttons(module_name, data, figures, ml_config)
AddReportButtons ==
    /\ ui_pc = "ready"
    /\ ui_runs < MaxRuns
    /\ \E click \in Clicks, outcome \in RemoteOutcomes :
           \E out \in {add_report_buttons(ml_config_given, language, gemini_api_key,
                                           module_name, data, figures, click, outcome)} :
               /\ clicked' = click
               /\ downloads' = out.downloads
               /\ messages' = out.messages
               /\ doc' = out.report.blocks
               /\ error' = out.report.err
               /\ mode' = out.report.mode
               /\ rep_pc' = IF ~out.report.ran THEN "input"
                            ELSE IF out.report.err = "" THEN "returned" ELSE "raised"
               /\ remote_calls' = out.report.calls
               /\ model_reads' = out.report.reads
               /\ remote' = out.report.remote
               /\ sent_prompt' = out.report.prompt
    /\ ui_runs' = ui_runs + 1
    /\ page' = "module"
    /\ UNCHANGED <<ml_config_given, config_key, gen_simple, gen_ai, ui_pc>>
    /\ UNCHANGED <<language, gemini_api_key, module_name, data, figures>>
    /\ UNCHANGED <<synth_vars, resolver_vars, pyramid_vars>>

\* one run of main: the sidebar buttons set the flags, the continental
\* overview page handles them
MainRun ==
    /\ ui_pc = "ready"
    /\ ui_runs < MaxRuns
    /\ \E click \in Clicks, pg \in Pages, outcome \in RemoteOutcomes :
           \E out \in {main(pg, language, gemini_api_key, config_key, data,
                             gen_simple \/ click = "simple", gen_ai \/ click = "ai",
                             outcome)} :
               /\ clicked' = click
               /\ page' = pg
               /\ gen_simple' = out.gen_simple
               /\ gen_ai' = out.gen_ai
               /\ downloads' = out.downloads
               /\ messages' = out.messages
               /\ doc' = out.report.blocks
               /\ error' = out.report.err
               /\ mode' = out.report.mode
               /\ rep_pc' = IF ~out.report.ran THEN "input"
                            ELSE IF out.report.err = "" THEN "returned" ELSE "raised"
               /\ remote_calls' = out.report.calls
               /\ model_reads' = out.report.reads
               /\ remote' = out.report.remote
               /\ sent_prompt' = out.report.prompt
    /\ ui_runs' = ui_runs + 1
    /\ UNCHANGED <<ml_config_given, config_key, ui_pc>>
    /\ UNCHANGED <<language, gemini_api_key, module_name, data, figures>>
    /\ UNCHANGED <<synth_vars, resolver_vars, pyramid_vars>>

UiNext == AddReportButtons \/ MainRun

InitUi == UiInit /\ SynthIdle /\ ResolverIdle /\ PyramidIdle

InitPyramid == PyramidInit /\ SynthIdle /\ ResolverIdle /\ ReportIdle /\ UiIdle

SpecPyramid == InitPyramid /\ [][PyramidNext]_vars

SpecUi == InitUi /\ [][UiNext]_vars

InitResolver == ResolverInit /\ SynthIdle /\ ReportIdle /\ UiIdle /\ PyramidIdle

SpecResolver == InitResolver /\ [][ResolverNext]_vars

SynthNext == Synthesize

InitSynth == SynthInit /\ ResolverIdle /\ ReportIdle /\ UiIdle /\ PyramidIdle

InitReport == ReportInit /\ SynthIdle /\ ResolverIdle /\ UiIdle /\ PyramidIdle

SpecReport == InitReport /\ [][ReportNext]_vars

SpecSynth == InitSynth /\ [][SynthNext]_vars

-----------------------------------------------------------------------------
(* Claims about the cohort synthesizer, checked under SpecSynth.           *)

Abs(x) == IF x < 0 THEN -x ELSE x

\* the triple handed in lies inside the clamp ranges
InClampRanges ==
    /\ notna(tfr) /\ tfr.v >= 15 /\ tfr.v <= 80
    /\ notna(life_exp) /\ life_exp.v >= 40 /\ life_exp.v <= 85
    /\ notna(growth) /\ growth.v >= -10 /\ growth.v <= 50

\* The male bars are drawn to the left: male[j] is the male share negated.
MaleShare(j) == -male[j]

FemaleShare(j) == female[j]

\* C7: for every triple inside the clamp ranges the 34 male/female shares,
\* each rounded to 2 decimals, sum to 100 within 0.1 and are all >= 0.
C7_SharesSumTo100 ==
    (synth_pc = "done" /\ InClampRanges) =>
        /\ Len(male) = 17 /\ Len(female) = 17
        /\ Abs(SumSeq([j \in 1..17 |-> MaleShare(j)]) + SumSeq(female) - 10000) <= 10
        /\ \A j \in 1..17 : MaleShare(j) >= 0 /\ FemaleShare(j) >= 0

C7_Witness ==
    /\ synth_pc = "done"
    /\ InClampRanges
    /\ tfr = Num(40) /\ life_exp = Num(70) /\ growth = Num(-5)
    /\ Len(male) = 17
    /\ male[1] < 0

\* the input with its documented default put in when it is missing
OrDefault(x, d) == IF isna(x) THEN Num(d) ELSE x

\* C9: with all three inputs missing the result is, band for band, the one
\* of generate_distribution(4.0, 60, 2.5); each missing input is replaced by
\* its own default whatever the other two are.
C9_MissingUsesDefaults ==
    synth_pc = "done" =>
        /\ pop_age = generate_distribution(OrDefault(tfr, 40), OrDefault(life_exp, 60),
                                           OrDefault(growth, 25))
        /\ (isna(tfr) /\ isna(life_exp) /\ isna(growth)) =>
               pop_age = generate_distribution(Num(40), Num(60), Num(25))

C9_Witness ==
    /\ synth_pc = "done"
    /\ isna(tfr) /\ isna(life_exp) /\ isna(growth)
    /\ Len(pop_age) = 17

\* C10: each input is clamped on its own: fertility below 1.5 (above 8.0)
\* gives the result at 1.5 (8.0), life expectancy below 40 (above 85) the
\* result at 40 (85), growth below -1 (above 5) the result at -1 (5), the
\* other two inputs held fixed.
C10_ClampedIndependently ==
    synth_pc = "done" =>
        /\ (notna(tfr) /\ tfr.v < 15) =>
               pop_age = generate_distribution(Num(15), life_exp, growth)
        /\ (notna(tfr) /\ tfr.v > 80) =>
               pop_age = generate_distribution(Num(80), life_exp, growth)
        /\ (notna(life_exp) /\ life_exp.v < 40) =>
               pop_age = generate_distribution(tfr, Num(40), growth)
        /\ (notna(life_exp) /\ life_exp.v > 85) =>
               pop_age = generate_distribution(tfr, Num(85), growth)
        /\ (notna(growth) /\ growth.v < -10) =>
               pop_age = generate_distribution(tfr, life_exp, Num(-10))
        /\ (notna(growth) /\ growth.v > 50) =>
               pop_age = generate_distribution(tfr, life_exp, Num(50))

C10_Witness ==
    /\ synth_pc = "done"
    /\ tfr = Num(95) /\ life_exp = Num(30) /\ growth = Num(65)
    /\ Len(pop_age) = 17

\* C20: the band-0 population before normalization is exactly
\* 100000 x (fertility / 5.0) x 0.048 for the clamped fertility (9600 hundredths
\* of a person per tenth of fertility), no other factor applied.
C20_Band0IsBase ==
    synth_pc = "done" => dist[1] = 9600 * ClampTfr(tfr)

\* C20 as amended: the band-0 population before normalization is
\* 100000 x (fertility / 5.0) x 0.048 x survival[0], survival[0] being
\* 0.95 + (life expectancy - 50) x 0.001 for the clamped inputs; here to the
\* nearest hundredth of a person.
C20_Band0IsBaseTimesSurvival ==
    synth_pc = "done" =>
        LET exact == 9600 * ClampTfr(tfr) * (950 + (ClampLife(life_exp) - 50))
        IN  2 * Abs(1000 * dist[1] - exact) <= 1000

C20_Witness ==
    /\ synth_pc = "done"
    /\ tfr = Num(40)
    /\ life_exp = Num(60)
    /\ dist[1] = 368640

\* x divided n times by (1 + growth/100), growth g in tenths of a percent
RECURSIVE DividedBy(_, _, _)
DividedBy(x, g, n) ==
    IF n = 0 THEN x
    ELSE LET y == MulDiv(x, 1000, 1000 + g)
         IN  IF y >= 0 THEN DividedBy(y, g, n - 1) ELSE 0

\* previous band x survival[i] x (1 + growth/100)^(-(i x 5)), x 0.6 for bands
\* 15 and 16, from the band before as the run left it
BandProduct(i) ==
    LET le == ClampLife(life_exp)
        g == ClampGrowth(growth)
        p == DividedBy(MulDiv(dist[i], SurvivalAt(i, le), 1000), g, 5 * i)
    IN  IF i \in {15, 16} THEN MulDiv(p, 6, 10) ELSE p

\* equal up to the rounding of the fixed-point arithmetic
Near(x, y) == Abs(x - y) <= 10 + y \div 100000

\* C21: for every band i in 1..16 the population before normalization is the
\* previous band's x survival[i] x (1 + growth/100)^(-(i x 5)), x 0.6 for bands
\* 15 and 16 only.
C21_BandIsProduct ==
    synth_pc = "done" =>
        \A i \in 1..16 : Near(dist[i + 1], BandProduct(i))

\* C21 as amended: for every band i in 1..16 the population before
\* normalization is the larger of 100 and the previous band's (floored)
\* population x survival[i] x (1 + growth/100)^(-(i x 5)), x 0.6 for bands 15
\* and 16 only.
C21_BandIsFlooredProduct ==
    synth_pc = "done" =>
        \A i \in 1..16 : Near(dist[i + 1], Max2(PopFloor, BandProduct(i)))

C21_Witness ==
    /\ synth_pc = "done"
    /\ growth = Num(50)
    /\ dist[2] > PopFloor
    /\ dist[17] = PopFloor

\* the clamped life expectancies, years
LifeRange == LifeMin..LifeMax

\* survival values in [0.1, 0.99]; bands 0-2 share one value that does not
\* decrease with life expectancy; bands 3-12 fall by a constant step per band
\* whatever the life expectancy
SurvivalEarlyBands ==
    /\ \A j \in 1..17 : survival[j] >= 100 /\ survival[j] <= 990
    /\ survival[1] = survival[2] /\ survival[2] = survival[3]
    /\ \A le2 \in LifeRange :
           le2 >= ClampLife(life_exp) => Survival(le2)[1] >= survival[1]
    /\ \A j \in 4..12 : survival[j + 1] - survival[j] = survival[5] - survival[4]
    /\ survival[5] < survival[4]
    /\ \A le2 \in LifeRange : \A j \in 4..13 : Survival(le2)[j] = survival[j]

\* C22: every survival value lies in [0.1, 0.99]; bands 0-2 share one value
\* non-decreasing in life expectancy; bands 3-12 decrease linearly with band
\* index independently of life expectancy; bands 13-16 decrease with band
\* index and with the deficit (85 - life expectancy).
C22_LateBandsDecrease ==
    synth_pc = "done" =>
        /\ SurvivalEarlyBands
        /\ \A j \in 14..16 : survival[j + 1] < survival[j]
        /\ \A le2 \in LifeRange : \A j \in 14..17 :
               le2 < ClampLife(life_exp) => Survival(le2)[j] < survival[j]

\* C22 as amended: as C22, but bands 13-16 decrease with band index and with
\* the deficit only down to a floor of 0.3, at which they stay.
C22_LateBandsDecreaseToFloor ==
    synth_pc = "done" =>
        /\ SurvivalEarlyBands
        /\ \A j \in 14..17 : survival[j] >= 300
        /\ \A j \in 14..16 :
               survival[j + 1] < survival[j]
                   \/ (survival[j + 1] = 300 /\ survival[j] = 300)
        /\ \A le2 \in LifeRange : \A j \in 14..17 :
               le2 < ClampLife(life_exp) =>
                   Survival(le2)[j] < survival[j]
                       \/ (Survival(le2)[j] = 300 /\ survival[j] = 300)

C22_Witness ==
    /\ synth_pc = "done"
    /\ life_exp = Num(40)
    /\ survival[14] = 400
    /\ survival[16] = 300
    /\ survival[17] = 300

\* C24: every one of the 17 band populations before normalization is at least
\* 100 for every input triple, missing and out-of-range inputs included, so
\* the total is at least 1700 and the fallback distribution is never returned.
C24_BandsAtLeastFloor ==
    synth_pc = "done" =>
        /\ Len(dist) = 17
        /\ \A j \in 1..17 : dist[j] >= 100 * 100
        /\ SumSeq(dist) >= 1700 * 100
        /\ pop_age # Fallback
        /\ pop_age = [j \in 1..17 |-> Percent2(dist[j], SumSeq(dist))]

C24_Witness ==
    /\ synth_pc = "done"
    /\ tfr = Num(10)
    /\ life_exp = Missing
    /\ growth = Num(65)
    /\ dist[1] > PopFloor
    /\ \E j \in 2..17 : dist[j] = PopFloor

-----------------------------------------------------------------------------
(* Claims about the year resolver, checked under SpecResolver.             *)

\* the years of the window [target - k, target] at which country c has a row
\* of df with a present value
PresentYears(c, k) ==
    {y \in (target_year - k)..target_year :
        \E j \in 1..Len(df) :
            df[j].country_iso2 = c /\ df[j].year = y /\ notna(df[j].value)}

MaxOf(S) == CHOOSE y \in S : \A z \in S : z <= y

RecordsOf(c) == {j \in 1..Len(result) : result[j].country_iso2 = c}

\* C5: for each country on its own, the result holds the record of the
\* greatest year y with target - k <= y <= target at which the country has a
\* present value, and no record for a country without such a year.
C5_MostRecentWithinLookback ==
    res_pc = "resolved" =>
        \A c \in Countries :
            IF PresentYears(c, max_years_back) = {}
            THEN RecordsOf(c) = {}
            ELSE /\ Cardinality(RecordsOf(c)) = 1
                 /\ \A j \in RecordsOf(c) :
                        /\ result[j].year = MaxOf(PresentYears(c, max_years_back))
                        /\ result[j].country_name = CountryName[c]
                        /\ \E i \in 1..Len(df) :
                               /\ df[i].country_iso2 = c
                               /\ df[i].year = result[j].year
                               /\ notna(df[i].value)
                               /\ result[j].value = Round2(df[i].value.v)

\* data only at Y-2: lookback 3 gives the Y-2 record
C5_Witness ==
    /\ res_pc = "resolved"
    /\ max_years_back = 3
    /\ Len(df) = 1
    /\ df[1].year = target_year - 2
    /\ notna(df[1].value)
    /\ Len(result) = 1
    /\ result[1].year = target_year - 2

\* C6: when no country has a present value inside the window (frames without
\* rows included) the result is empty, and create_africa_map answers with a
\* warning and None.
C6_EmptyResultIsNoData ==
    /\ (res_pc = "resolved" /\ \A c \in Countries : PresentYears(c, max_years_back) = {})
           => result = <<>>
    /\ (res_pc = "mapped" /\ \A c \in Countries : PresentYears(c, 3) = {})
           => (result = <<>> /\ map_warning /\ map_return = "None")

C6_Witness ==
    /\ res_pc = "mapped"
    /\ Len(df) = 2
    /\ \A c \in Countries : PresentYears(c, 3) = {}
    /\ map_warning
    /\ map_return = "None"

\* the lookback of the call that produced result
LookbackUsed == IF res_pc = "mapped" THEN MapYearsBack ELSE max_years_back

\* C28: the result holds at most one record per country, every record's year
\* lies in [target_year - k, target_year], every record's country occurs in
\* the input, and the call leaves the input time series unchanged.
C28_ResultWithinInput ==
    /\ [](res_pc \in {"resolved", "mapped"} =>
            /\ \A i, j \in 1..Len(result) :
                   result[i].country_iso2 = result[j].country_iso2 => i = j
            /\ \A j \in 1..Len(result) :
                   /\ result[j].year >= target_year - LookbackUsed
                   /\ result[j].year <= target_year
                   /\ \E i \in 1..Len(df) : df[i].country_iso2 = result[j].country_iso2)
    /\ [][res_pc' # res_pc => df' = df]_vars

C28_Witness ==
    /\ res_pc = "resolved"
    /\ max_years_back = 2
    /\ Len(df) = 3
    /\ df[1].country_iso2 = df[2].country_iso2
    /\ df[3].country_iso2 # df[1].country_iso2
    /\ \A j \in 1..3 : notna(df[j].value) /\ df[j].year >= target_year - 2
                                          /\ df[j].year <= target_year
    /\ Len(result) = 2

-----------------------------------------------------------------------------
(* Claims about report assembly, checked under SpecReport.                 *)

Finished == rep_pc \in {"returned", "raised"}

SectionOf(d, sec) == SelectSeq(d, LAMBDA b : b.section = sec)

\* a section method was entered: its heading is in the document
Entered(sec) == SectionOf(doc, sec) # <<>>

EndsWithFooter ==
    /\ doc # <<>>
    /\ doc[Len(doc)].section = "Footer"
    /\ Len(SectionOf(doc, "Footer")) = 3

\* C1: for every missing or partial metrics mapping both report methods run
\* every section through to the Footer and return a document without raising.
C1_NeverRaisesOnPartialMetrics ==
    Finished => (rep_pc = "returned" /\ error = "" /\ EndsWithFooter)

\* the figure list has a figure whose rendering or embedding raises
SomeFigureFails == \E i \in 1..Len(figures.list) : figures.list[i].k = "raises"

Placeholder(i, reason) ==
    Block("Figures", "paragraph",
          Text("[Erreur figure {}: {}]", <<[k |-> "int", n |-> i], Lit(reason)>>))

Caption(i) == Block("Figures", "caption", Text("Figure {}", <<[k |-> "int", n |-> i]>>))

Positions(d, b) == {j \in 1..Len(d) : d[j] = b}

\* the document of the same call made without figures
WithoutFigures ==
    IF mode = "simple"
    THEN create_simple_report(language, module_name, data, NoFigures).blocks
    ELSE create_ai_report(language, gemini_api_key, module_name, data, NoFigures,
                          remote).blocks

\* C2: when some figure fails, _add_figures writes one placeholder per failing
\* figure with its 1-based index and the reason, embeds every other figure
\* with its caption, and the Narrative and Footer follow as without figures.
C2_FailingFigureGetsPlaceholder ==
    (Finished /\ Entered("Figures") /\ SomeFigureFails) =>
        LET figs == SectionOf(doc, "Figures")
            l == figures.list
        IN  /\ rep_pc = "returned"
            /\ \A i \in 1..Len(l) :
                   /\ l[i].k = "raises" =>
                          Cardinality(Positions(figs, Placeholder(i, l[i].reason))) = 1
                   /\ l[i].k = "ok" =>
                          \E j \in 1..(Len(figs) - 1) :
                              figs[j].kind = "picture" /\ figs[j + 1] = Caption(i)
            /\ Cardinality({j \in 1..Len(figs) : figs[j].kind = "paragraph"
                                                   /\ figs[j].text.fmt # ""})
                   = Cardinality({i \in 1..Len(l) : l[i].k = "raises"})
            /\ Cardinality({j \in 1..Len(figs) : figs[j].kind = "picture"})
                   = Cardinality({i \in 1..Len(l) : l[i].k = "ok"})
            /\ SelectSeq(doc, LAMBDA b : b.section # "Figures") = WithoutFigures
            /\ Entered("Narrative")
            /\ EndsWithFooter

C2_Witness ==
    /\ rep_pc = "returned"
    /\ figures = FigureList(<<RenderFails, OkFig>>)
    /\ \E j \in 1..Len(doc) : doc[j] = Placeholder(1, RenderFails.reason)
    /\ \E j \in 1..Len(doc) : doc[j] = Caption(2)

\* C3: in create_ai_report with a credential, a failing remote call is not
\* propagated: the Narrative holds the error line of the language with the
\* reason in it, the Footer follows and the document is returned.
C3_RemoteFailureBecomesErrorLine ==
    (Finished /\ mode = "ai" /\ gemini_api_key # "" /\ remote_calls > 0 /\ ~remote.ok) =>
        /\ rep_pc = "returned"
        /\ error = ""
        /\ \E j \in 1..Len(doc) :
               doc[j] = Block("Narrative", "paragraph",
                              Text(IF language = "fr" THEN "Erreur analyse IA: {}"
                                   ELSE "Error during AI analysis: {}",
                                   <<Lit(remote.text)>>))
        /\ EndsWithFooter

C3_Witness ==
    /\ rep_pc = "returned"
    /\ mode = "ai"
    /\ gemini_api_key # ""
    /\ language = "en"
    /\ remote_calls = 1
    /\ remote = RemoteError
    /\ data = FullMetrics

\* C4: without a credential the narrative step calls nothing remote, does not
\* touch the model object and writes the same fixed notice in both languages;
\* the Footer follows and the document is returned.
C4_NoCredentialNotice ==
    (Finished /\ mode = "ai" /\ gemini_api_key = "") =>
        /\ remote_calls = 0
        /\ model_reads = 0
        /\ Entered("Narrative") =>
               /\ rep_pc = "returned"
               /\ SelectSeq(SectionOf(doc, "Narrative"), LAMBDA b : b.kind = "paragraph")
                      = <<Block("Narrative", "paragraph",
                                Text("Cle API Gemini non configuree. Definissez GEMINI_API_KEY.",
                                     <<>>))>>
               /\ EndsWithFooter

C4_Witness ==
    /\ rep_pc = "returned"
    /\ mode = "ai"
    /\ gemini_api_key = ""
    /\ language = "en"
    /\ remote_calls = 0
    /\ Entered("Narrative")

\* the sections of a document in the order they were first appended, each
\* run of blocks of one section counted once
RECURSIVE SectionRuns(_)
SectionRuns(d) ==
    IF d = <<>> THEN <<>>
    ELSE LET rest == SectionRuns(Tail(d))
         IN  IF rest # <<>> /\ Head(rest) = Head(d).section THEN rest
             ELSE <<Head(d).section>> \o rest

ExpectedSections ==
    <<"Header", "Date", "ExecutiveSummary", "MainData">>
        \o (IF figures.given /\ figures.list # <<>> THEN <<"Figures">> ELSE <<>>)
        \o <<"Narrative", "Footer">>

\* C11: both report methods append the sections in the order Header, Date,
\* ExecutiveSummary, MainData, Figures (exactly when a non-empty figure list
\* was supplied), Narrative, Footer; none twice and none after the Footer.
C11_SectionsInOrder == Finished => SectionRuns(doc) = ExpectedSections

\* the data lines of the MainData section: its paragraphs that are not blank
DataLines ==
    SelectSeq(SectionOf(doc, "MainData"),
              LAMBDA b : b.kind = "paragraph" /\ b.text.fmt # "")

\* C12: _add_main_data writes one line, in mapping order, for every top-level
\* entry that is not None or NaN: every number with two decimals, every text
\* verbatim; no other entry is left out.
C12_EveryEntryTwoDecimals ==
    (Finished /\ Entered("MainData")) =>
        LET present == SelectSeq(data, LAMBDA e : e.val.k \notin {"none", "nan"})
        IN  /\ Len(DataLines) = Len(present)
            /\ \A j \in 1..Len(present) :
                   /\ DataLines[j].text.args[1] = Lit(present[j].key)
                   /\ present[j].val.k \in {"int", "float"} =>
                          /\ DataLines[j].text.args[2].k = "fixed"
                          /\ DataLines[j].text.args[2].digits = 2
                   /\ present[j].val.k = "str" =>
                          DataLines[j].text.args[2] = Lit(present[j].val.s)

\* C12 as amended: one line, in mapping order, for every top-level entry that
\* is text, a float other than NaN (two decimals) or an integer (written
\* without decimals); None, NaN, booleans and nested mappings give no line.
C12_FloatsTwoDecimalsIntsPlain ==
    (Finished /\ Entered("MainData")) =>
        LET shown == SelectSeq(data, LAMBDA e : e.val.k \in {"int", "float", "str"})
        IN  /\ Len(DataLines) = Len(shown)
            /\ \A j \in 1..Len(shown) :
                   DataLines[j] =
                       Block("MainData", "paragraph",
                             Text("{}: {}",
                                  << Lit(shown[j].key),
                                     CASE shown[j].val.k = "float" ->
                                              [k |-> "fixed", digits |-> 2,
                                               n |-> RoundHalfEven(shown[j].val.n \div 10,
                                                                   shown[j].val.n % 10, 10)]
                                       [] shown[j].val.k = "int" ->
                                              [k |-> "int", n |-> shown[j].val.n]
                                       [] shown[j].val.k = "str" ->
                                              Lit(shown[j].val.s) >>))

C12_Witness ==
    /\ rep_pc = "returned"
    /\ HasKey(data, "countries_analyzed") /\ Get(data, "countries_analyzed") = IntV(54)
    /\ HasKey(data, "dividend_distribution")
    /\ HasKey(data, "weighted_tfr") /\ Get(data, "weighted_tfr") = FloatV(4321)
    /\ \E j \in 1..Len(DataLines) :
           DataLines[j].text.args = <<Lit("countries_analyzed"), [k |-> "int", n |-> 54]>>
    /\ \E j \in 1..Len(DataLines) :
           DataLines[j].text.args = <<Lit("weighted_tfr"),
                                      [k |-> "fixed", digits |-> 2, n |-> 432]>>

\* the four well-known summary metrics in the order of the summary, each with
\* the text of its bullet
SummaryKeys ==
    << [key |-> "total_population_millions", fmt |-> "Population totale: {:.1f} millions"],
       [key |-> "weighted_tfr", fmt |-> "Taux de fecondite moyen: {:.2f}"],
       [key |-> "weighted_median_age", fmt |-> "Age median: {:.1f} ans"],
       [key |-> "countries_analyzed", fmt |-> "Pays analyses: {}"] >>

SummaryBullets ==
    SelectSeq(SectionOf(doc, "ExecutiveSummary"), LAMBDA b : b.kind = "bullet")

\* C13: _add_executive_summary writes the bullets of population, fertility
\* rate, median age and country count in that order, each exactly when its
\* key is present and its value is neither None nor NaN.
C13_OnlyPresentNonMissing ==
    (Finished /\ Entered("ExecutiveSummary")) =>
        LET due == SelectSeq(SummaryKeys,
                             LAMBDA k : HasKey(data, k.key)
                                        /\ Get(data, k.key).k \notin {"none", "nan"})
        IN  /\ Len(SummaryBullets) = Len(due)
            /\ \A j \in 1..Len(due) : SummaryBullets[j].text.fmt = due[j].fmt

\* the language a paragraph of the static narrative is written in
ExplanationLanguage(text) ==
    IF \/ text = "Ce rapport presente une analyse demographique detaillee."
       \/ \E n \in {"Vue Continentale", "Profils Pays", "Analyse des Tendances",
                    "Analyse par Groupement", "Explorateur de Donnees"} :
              text = explanations[n]
    THEN "fr"
    ELSE "en"

\* C15: the static narrative is the fixed paragraph of a known module, a
\* generic one-line explanation for any other module name, and in both cases
\* written in the selected language.
C15_ExplanationInSelectedLanguage ==
    (Finished /\ mode = "simple" /\ Entered("Narrative")) =>
        LET paras == SelectSeq(SectionOf(doc, "Narrative"),
                               LAMBDA b : b.kind = "paragraph" /\ b.text.fmt # "")
        IN  /\ Len(paras) = 1
            /\ module_name \in DOMAIN explanations =>
                   paras[1].text.fmt = explanations[module_name]
            /\ ExplanationLanguage(paras[1].text.fmt) = language
            /\ rep_pc = "returned"

\* C16: an invocation of create_ai_report calls the generative service
\* exactly once when a credential is configured, a failed call included, and
\* not at all when none is.
C16_OneRemoteCallPerInvocation ==
    (Finished /\ mode = "ai") =>
        remote_calls = (IF gemini_api_key # "" THEN 1 ELSE 0)

\* C19: the Date section of both report methods writes the current date as
\* dd/mm/yyyy for 'fr' and as mm/dd/yyyy for 'en'.
C19_DateFormatFollowsLanguage ==
    Finished =>
        LET dates == SelectSeq(SectionOf(doc, "Date"), LAMBDA b : b.text.fmt # "")
        IN  /\ Len(dates) = 1
            /\ dates[1].text.fmt = "Date: {}"
            /\ dates[1].text.args =
                   <<[k |-> "date",
                      parts |-> IF language = "fr" THEN <<Now.d, Now.m, Now.y>>
                                ELSE <<Now.m, Now.d, Now.y>>]>>

C19_Witness ==
    /\ rep_pc = "returned"
    /\ mode = "ai"
    /\ language = "en"
    /\ \E j \in 1..Len(doc) :
           /\ doc[j].section = "Date"
           /\ doc[j].text.args = <<[k |-> "date", parts |-> <<Now.m, Now.d, Now.y>>]>>

\* a prompt was built from the metrics
PromptBuilt == Finished /\ sent_prompt # NoPrompt

\* what a prompt line shows: its indentation depth, its key, and the rendered
\* value, or SubList for the key line that opens a sub-list
SubList == [k |-> "sublist"]

LineShape(t) ==
    [depth |-> IF t.fmt \in {"{}:", "{}: {:.2f}", "{}: {}"} THEN 0 ELSE 1,
     key |-> t.args[1].s,
     shown |-> IF Len(t.args) = 1 THEN SubList ELSE t.args[2]]

Shapes(lines) == [j \in 1..Len(lines) |-> LineShape(lines[j])]

IsNumber(v) == v.k \in {"int", "float", "bool"}

\* the line of a leaf: two decimals for a number, text verbatim, nothing for a
\* missing value
LeafLine(depth, key, v) ==
    IF IsNumber(v) THEN <<[depth |-> depth, key |-> key, shown |-> FormatFixed(v, 2)]>>
    ELSE IF v.k = "str" THEN <<[depth |-> depth, key |-> key, shown |-> Lit(v.s)]>>
    ELSE <<>>

\* the metrics flattened in mapping order, a mapping at any depth as its key
\* followed by the sub-list of its entries one level deeper
RECURSIVE FlattenedRecursively(_, _)
FlattenedRecursively(m, depth) ==
    IF m = <<>> THEN <<>>
    ELSE LET e == Head(m)
         IN  (IF e.val.k = "dict"
              THEN <<[depth |-> depth, key |-> e.key, shown |-> SubList]>>
                   \o FlattenedRecursively(e.val.d, depth + 1)
              ELSE LeafLine(depth, e.key, e.val))
             \o FlattenedRecursively(Tail(m), depth)

\* the metrics flattened in mapping order, a top-level mapping as its key
\* followed by the sub-list of its entries, a mapping inside it as one
\* sub-list line showing its str()
RECURSIVE FlattenedOneLevel(_, _)
FlattenedOneLevel(m, depth) ==
    IF m = <<>> THEN <<>>
    ELSE LET e == Head(m)
         IN  (IF e.val.k = "dict"
              THEN IF depth = 0
                   THEN <<[depth |-> 0, key |-> e.key, shown |-> SubList]>>
                        \o FlattenedOneLevel(e.val.d, 1)
                   ELSE <<[depth |-> depth, key |-> e.key,
                           shown |-> [k |-> "mapping", d |-> e.val.d]]>>
              ELSE LeafLine(depth, e.key, e.val))
             \o FlattenedOneLevel(Tail(m), depth)

\* C23: _format_data_for_prompt flattens the metrics recursively and in mapping
\* order: a nested mapping at any depth becomes its key followed by an
\* indented sub-list, every non-missing numeric leaf is written with two
\* decimals, every text leaf verbatim, missing leaves are omitted.
C23_FlattensAtAnyDepth ==
    PromptBuilt => Shapes(sent_prompt.lines) = FlattenedRecursively(data, 0)

\* C23 as amended: the flattening goes one level deep; a mapping inside a
\* top-level mapping is written on one sub-list line by str(), and the leaves
\* at the top level and directly inside a top-level mapping are written as C23
\* says.
C23_FlattensOneLevel ==
    PromptBuilt => Shapes(sent_prompt.lines) = FlattenedOneLevel(data, 0)

C23_Witness ==
    /\ PromptBuilt
    /\ HasKey(data, "weighted_tfr")
    /\ HasKey(data, "dividend_distribution")
    /\ Get(data, "dividend_distribution") = NestedTwice
    /\ \E j \in 1..Len(sent_prompt.lines) :
           /\ sent_prompt.lines[j].fmt = "  - {}: {}"
           /\ sent_prompt.lines[j].args[2].k = "mapping"

\* the blocks of a document outside the Narrative section, in order
OutsideNarrative(d) == SelectSeq(d, LAMBDA b : b.section # "Narrative")

\* the documents the other method builds from the same module name, language,
\* metrics and figures (one per answer of the remote service)
OtherModeDocs ==
    IF mode = "ai"
    THEN {create_simple_report(language, module_name, data, figures).blocks}
    ELSE {create_ai_report(language, gemini_api_key, module_name, data, figures, o).blocks :
              o \in RemoteOutcomes}

\* C25: for the same module name, language, metrics and figures both report
\* methods append identical Header, Date, ExecutiveSummary, MainData, Figures
\* and Footer content; they differ only in the Narrative section.
C25_ModesDifferOnlyInNarrative ==
    Finished =>
        \A other \in OtherModeDocs :
            /\ OutsideNarrative(doc) = OutsideNarrative(other)
            /\ \A sec \in {"Header", "Date", "ExecutiveSummary", "MainData",
                           "Figures", "Footer"} :
                   SectionOf(doc, sec) = SectionOf(other, sec)

C25_Witness ==
    /\ rep_pc = "returned"
    /\ mode = "simple"
    /\ data = FullMetrics
    /\ Len(figures.list) = 2
    /\ \A sec \in {"Header", "Date", "ExecutiveSummary", "MainData", "Figures",
                   "Narrative", "Footer"} : Entered(sec)
    /\ \A other \in OtherModeDocs :
           SectionOf(doc, "Narrative") # SectionOf(other, "Narrative")

-----------------------------------------------------------------------------
(* Claims about the report buttons and the sidebar reports, checked under  *)
(* SpecUi.                                                                 *)

\* a document with a non-empty Header and Footer, no summary bullet and no
\* data line
CompleteButEmpty(d) ==
    /\ SectionOf(d, "Header") # <<>>
    /\ SectionOf(d, "Footer") # <<>>
    /\ \A j \in 1..Len(d) :
           /\ d[j].kind # "bullet"
           /\ d[j].section = "MainData" =>
                  (d[j].kind = "heading2" \/ d[j].text.fmt = "")

\* C14: a simple report requested through add_report_buttons with an empty
\* metrics mapping is offered as a complete document: Header and Footer
\* non-empty, no summary bullet, no data line.
C14_EmptyMetricsStillOffered ==
    (page = "module" /\ ml_config_given /\ data = <<>> /\ clicked = "simple") =>
        /\ Len(downloads) = 1
        /\ CompleteButEmpty(downloads[1].data)

\* the module name a run's reports are generated for
ReportModule ==
    IF page = "module" THEN module_name ELSE t_continental_overview(language)

\* <report-kind>_<module name, spaces as underscores>_<YYYYMMDD_HHMMSS>.docx
WellFormedFilename(fn, name) ==
    LET mod == Tokens(name)
        n == Len(mod)
    IN  /\ Len(fn) = n + 5
        /\ fn[1].k = "text" /\ fn[1].s \in {"rapport_simple", "rapport_ia"}
        /\ fn[2] = Lit("_")
        /\ \A i \in 1..n : fn[2 + i] = Lit(IF mod[i] = " " THEN "_" ELSE mod[i])
        /\ fn[n + 3] = Lit("_")
        /\ fn[n + 4] = [k |-> "date",
                        parts |-> <<Now.y, Now.m, Now.d, Now.H, Now.M, Now.S>>]
        /\ fn[n + 5] = Lit(".docx")

\* C18: add_report_buttons and the sidebar reports of main offer every
\* generated report under a file name of the form
\* <report-kind>_<module name, spaces as underscores>_<YYYYMMDD_HHMMSS>.docx.
C18_DownloadFilenames ==
    /\ \A j \in 1..Len(downloads) :
           WellFormedFilename(downloads[j].file_name, ReportModule)
    /\ (page = "continental_overview" /\ data = FullMetrics /\ clicked = "simple")
           => downloads # <<>>

\* the last run of main showed the continental overview with report data, so
\* it went through the report-generation block
HandledFlags == ui_runs > 0 /\ page = "continental_overview" /\ data # <<>>

\* C26: the run of main that handles a pending-report flag on the
\* continental-overview page ends with the flag reset to False, whether or not
\* the generation succeeded, so one click causes at most one attempt.
C26_FlagsResetAfterHandling ==
    HandledFlags => ~gen_simple /\ ~gen_ai

\* the last run of main reached the AI block with the flag pending and passed
\* `if config_loader.get('GEMINI_API_KEY')`
GatePassed ==
    /\ HandledFlags
    /\ clicked = "ai"
    /\ ~gen_simple
    /\ config_key # ""

\* C27: whenever the sidebar AI path passes its credential gate, the
\* ReportGenerator constructed for the request holds a non-empty credential
\* too, and the document produced does not carry the "not configured" notice.
C27_GateImpliesGeneratorCredential ==
    GatePassed =>
        /\ rep_pc \in {"returned", "raised"}
        /\ mode = "ai"
        /\ gemini_api_key # ""
        /\ \A j \in 1..Len(doc) : doc[j].text.fmt # NotConfiguredNotice

-----------------------------------------------------------------------------
(* Claims about the population pyramid, checked under SpecPyramid.         *)

\* the years the country has rows for
ObservedYears == {pyr_country_data[j].year : j \in 1..Len(pyr_country_data)}

Animated == pyr_pc = "done" /\ animate /\ Cardinality(ObservedYears) > 1

\* the frames are named by the observed years, one each, in ascending order
FramesAscending ==
    /\ Len(fig_frames) = Cardinality(ObservedYears)
    /\ \A j \in 1..Len(fig_frames) : fig_frames[j].name \in ObservedYears
    /\ \A i, j \in 1..Len(fig_frames) : i < j => fig_frames[i].name < fig_frames[j].name

CallsFor(yr) == {j \in 1..Len(gd_calls) : gd_calls[j].year = yr}

\* C17: with animate and n > 1 observed years generate_distribution is called
\* once per observed year, n times in all, and the frames are one per
\* observed year in ascending year order.
C17_OneCallPerYear ==
    Animated =>
        /\ Len(gd_calls) = Cardinality(ObservedYears)
        /\ \A yr \in ObservedYears : Cardinality(CallsFor(yr)) = 1
        /\ FramesAscending

\* C17 as amended: generate_distribution is called twice per observed year,
\* once for the year's bars and once for its frame, 2n times in all; the
\* frames are one per observed year in ascending year order.
C17_TwoCallsPerYear ==
    Animated =>
        /\ Len(gd_calls) = 2 * Cardinality(ObservedYears)
        /\ \A yr \in ObservedYears :
               /\ Cardinality(CallsFor(yr)) = 2
               /\ {gd_calls[j].loop : j \in CallsFor(yr)} = {"trace", "frame"}
        /\ FramesAscending

C17_Witness ==
    /\ Animated
    /\ Len(pyr_country_data) = 3
    /\ pyr_country_data[1].year = 2023
    /\ pyr_country_data[2].year = 2021
    /\ pyr_country_data[3].year = 2023
    /\ Len(fig_frames) = 2
    /\ fig_frames[1].name = 2021
    /\ Len(gd_calls) = 4

=============================================================================
